---- MODULE Spec2Model ----
(***************************************************************************)
(* State-machine model of the intent-routing and response-normalisation   *)
(* pipeline of server-voice-agent (src/functions.js, the handler module    *)
(* src/unnamed/part_000 and the HTTP routes of src/app.js).                *)
(*                                                                         *)
(* JavaScript values are tagged records: [t |-> "string", s |-> chunks],   *)
(* [t |-> "number", n |-> n], [t |-> "array", items |-> seq],              *)
(* [t |-> "object", f |-> record], [t |-> "undefined"], [t |-> "null"],    *)
(* [t |-> "boolean", b |-> b].  A string is the sequence of its non-empty  *)
(* chunks (characters or longer pieces), so "" is <<>> and concatenation   *)
(* is \o.  A call that may throw yields Ret(value) or Threw(message).      *)
(***************************************************************************)
EXTENDS Integers, Sequences, FiniteSets, TLC

VARIABLES
    req,    \* request id -> the activation record of that async call
    env,    \* process.env: whether RAPIDAPI_KEY is set
    fx      \* harness of the pure helpers: the call made and its outcome

vars == <<req, env, fx>>

-----------------------------------------------------------------------------
(* JavaScript values                                                       *)

Undefined == [t |-> "undefined"]
Null == [t |-> "null"]
Str(chunks) == [t |-> "string", s |-> chunks]
Lit(text) == [t |-> "string", s |-> <<text>>]
EmptyString == [t |-> "string", s |-> <<>>]
Num(n) == [t |-> "number", n |-> n]
\* a number with one decimal digit, such as the confidence 0.8: its tenths
Decimal(tenths) == [t |-> "number", n |-> tenths, scale |-> 10]
Bool(b) == [t |-> "boolean", b |-> b]
Arr(items) == [t |-> "array", items |-> items]
Obj(fields) == [t |-> "object", f |-> fields]

Ret(v) == [threw |-> FALSE, value |-> v]
Threw(message) == [threw |-> TRUE, message |-> message]

\* ToBoolean: undefined, null, "", 0 and false are falsy, all else truthy
Truthy(v) ==
    CASE v.t = "undefined" -> FALSE
      [] v.t = "null" -> FALSE
      [] v.t = "string" -> v.s # <<>>
      [] v.t = "number" -> v.n # 0
      [] v.t = "boolean" -> v.b
      [] OTHER -> TRUE

\* typeof v === "string"
IsString(v) == v.t = "string"

\* Array.isArray(v)
IsArray(v) == v.t = "array"

\* a || b
JsOr(a, b) == IF Truthy(a) THEN a ELSE b

\* o.k for a value that is not null or undefined (absent property: undefined)
Get(o, k) ==
    IF o.t = "object" /\ k \in DOMAIN o.f THEN o.f[k] ELSE Undefined

\* a === b for the primitives the code compares (strings against literals)
StrictEq(a, b) ==
    /\ a.t = b.t
    /\ a.t = "string" => a.s = b.s
    /\ a.t = "number" => a.n = b.n
    /\ a.t = "boolean" => a.b = b.b
    /\ a.t \in {"array", "object"} => FALSE

\* property read on null or undefined is a TypeError
CannotRead(v) == v.t \in {"undefined", "null"}

RECURSIVE Flatten(_)
Flatten(seqs) ==
    IF seqs = <<>> THEN <<>> ELSE Head(seqs) \o Flatten(Tail(seqs))

\* String(v), as template literals and encodeURIComponent apply it
RECURSIVE ToStringJs(_)
ToStringJs(v) ==
    CASE v.t = "string" -> v.s
      [] v.t = "number" -> <<ToString(v.n)>>
      [] v.t = "boolean" -> IF v.b THEN <<"true">> ELSE <<"false">>
      [] v.t = "undefined" -> <<"undefined">>
      [] v.t = "null" -> <<"null">>
      [] v.t = "array" ->
            Flatten([i \in 1..Len(v.items) |->
                (IF i > 1 THEN <<",">> ELSE <<>>) \o
                (IF CannotRead(v.items[i]) THEN <<>> ELSE ToStringJs(v.items[i]))])
      [] OTHER -> <<"[object Object]">>

-----------------------------------------------------------------------------
(* JSON                                                                    *)

\* property enumeration order of the object literals the model builds
PropertyOrder ==
    <<"role", "content", "intent", "confidence", "clarification",
      "searchQuery", "category", "message", "data", "products", "text">>

ObjKeys(o) == SelectSeq(PropertyOrder, LAMBDA k : k \in DOMAIN o.f)

\* a value JSON.stringify cannot serialise (a circular structure)
IsCyclic(v) == "cyclic" \in DOMAIN v

\* JSON.stringify(v): a string, undefined for undefined, or a TypeError
RECURSIVE JSONstringify(_)
JSONstringify(v) ==
    CASE IsCyclic(v) -> Threw(Lit("Converting circular structure to JSON"))
      [] v.t = "undefined" -> Ret(Undefined)
      [] v.t = "null" -> Ret(Lit("null"))
      [] v.t = "string" -> Ret(Str(<<"\"">> \o v.s \o <<"\"">>))
      [] v.t = "number" -> Ret(Str(<<ToString(v.n)>>))
      [] v.t = "boolean" -> Ret(Lit(IF v.b THEN "true" ELSE "false"))
      [] v.t = "array" ->
            LET parts == [i \in 1..Len(v.items) |-> JSONstringify(v.items[i])]
                bad == {i \in 1..Len(parts) : parts[i].threw}
            IN  IF bad # {}
                THEN parts[CHOOSE i \in bad : \A j \in bad : i <= j]
                ELSE Ret(Str(<<"[">> \o
                        Flatten([i \in 1..Len(parts) |->
                            (IF i > 1 THEN <<",">> ELSE <<>>) \o
                            (IF parts[i].value.t = "undefined"
                             THEN <<"null">> ELSE parts[i].value.s)])
                        \o <<"]">>))
      [] OTHER ->
            LET keys == ObjKeys(v)
                parts == [i \in 1..Len(keys) |-> JSONstringify(v.f[keys[i]])]
                bad == {i \in 1..Len(parts) : parts[i].threw}
                kept == SelectSeq([i \in 1..Len(keys) |-> i],
                                  LAMBDA i : parts[i].value.t # "undefined")
            IN  IF bad # {}
                THEN parts[CHOOSE i \in bad : \A j \in bad : i <= j]
                ELSE Ret(Str(<<"{">> \o
                        Flatten([n \in 1..Len(kept) |->
                            (IF n > 1 THEN <<",">> ELSE <<>>) \o
                            <<"\"", keys[kept[n]], "\":">> \o parts[kept[n]].value.s])
                        \o <<"}">>))

\* JSON.parse(text): a response text carries the value it denotes under
\* "json"; a text that denotes none is a SyntaxError
JSONparse(text) ==
    IF "json" \in DOMAIN text
    THEN Ret(text.json)
    ELSE Threw(Lit("Unexpected token in JSON"))

\* a response text that is the JSON of value v
JsonText(name, v) == [t |-> "string", s |-> <<name>>, json |-> v]

-----------------------------------------------------------------------------
(* sanitizeMessageHistory, functions.js 18-30                              *)

\* the callback of messageHistory.map: one turn, or the TypeError it raises
sanitizeTurn(message) ==
    IF CannotRead(message)
    THEN Threw(Lit("Cannot read properties of null or undefined (reading 'role')"))
    ELSE LET content == Get(message, "content")
             text == IF IsString(content) THEN Ret(content) ELSE JSONstringify(content)
         IN  IF text.threw
             THEN text
             ELSE Ret(Obj([role |-> JsOr(Get(message, "role"), Lit("user")),
                           content |-> text.value]))

\* sanitizeMessageHistory without the Array.isArray check
sanitizeMessageHistoryUnchecked(messageHistory) ==
    IF ~IsArray(messageHistory)
    THEN Threw(Lit("messageHistory.map is not a function"))
    ELSE LET turns == [i \in 1..Len(messageHistory.items) |->
                          sanitizeTurn(messageHistory.items[i])]
             bad == {i \in 1..Len(turns) : turns[i].threw}
         IN  IF bad # {}
             THEN turns[CHOOSE i \in bad : \A j \in bad : i <= j]
             ELSE Ret(Arr([i \in 1..Len(turns) |-> turns[i].value]))

sanitizeMessageHistory(messageHistory) ==
    IF ~IsArray(messageHistory)
    THEN Ret(Arr(<<>>))
    ELSE LET turns == [i \in 1..Len(messageHistory.items) |->
                          sanitizeTurn(messageHistory.items[i])]
             bad == {i \in 1..Len(turns) : turns[i].threw}
         IN  IF bad # {}
             THEN turns[CHOOSE i \in bad : \A j \in bad : i <= j]
             ELSE Ret(Arr([i \in 1..Len(turns) |-> turns[i].value]))

-----------------------------------------------------------------------------
(* Strings                                                                 *)

\* one character of String.prototype.toLowerCase
LowerChar(c) ==
    LET upper == <<"A", "B", "C", "D", "E", "F", "G", "H", "I", "J", "K", "L", "M",
                   "N", "O", "P", "Q", "R", "S", "T", "U", "V", "W", "X", "Y", "Z">>
        lower == <<"a", "b", "c", "d", "e", "f", "g", "h", "i", "j", "k", "l", "m",
                   "n", "o", "p", "q", "r", "s", "t", "u", "v", "w", "x", "y", "z">>
    IN  IF \E i \in 1..Len(upper) : upper[i] = c
        THEN lower[CHOOSE i \in 1..Len(upper) : upper[i] = c]
        ELSE c

\* s.toLowerCase() of a string given character by character
ToLowerCase(chunks) == [i \in 1..Len(chunks) |-> LowerChar(chunks[i])]

\* s.includes(k), both given character by character
Includes(chunks, k) ==
    \E i \in 0..(Len(chunks) - Len(k)) : SubSeq(chunks, i + 1, i + Len(k)) = k

IsSpace(c) == c \in {" ", "\n", "\t"}

\* s.trim()
RECURSIVE Trim(_)
Trim(chunks) ==
    IF chunks = <<>> THEN <<>>
    ELSE IF IsSpace(Head(chunks)) THEN Trim(Tail(chunks))
    ELSE IF IsSpace(chunks[Len(chunks)]) THEN Trim(SubSeq(chunks, 1, Len(chunks) - 1))
    ELSE chunks

\* encodeURIComponent of one chunk: reserved characters are percent-encoded,
\* also inside the multi-character chunks "[object Object]" and "N/A"
EncodeChunk(c) ==
    CASE c = " " -> "%20" [] c = "&" -> "%26" [] c = "/" -> "%2F"
      [] c = "\"" -> "%22" [] c = "," -> "%2C" [] c = "$" -> "%24"
      [] c = "[object Object]" -> "%5Bobject%20Object%5D"
      [] c = "N/A" -> "N%2FA"
      [] OTHER -> c

\* encodeURIComponent(v); the strings of the model are well-formed UTF-16
\* (no lone surrogate), on which it raises no URIError
encodeURIComponent(v) ==
    LET chunks == ToStringJs(v)
    IN  Ret(Str([i \in 1..Len(chunks) |-> EncodeChunk(chunks[i])]))

-----------------------------------------------------------------------------
(* Outcomes of the external capabilities                                   *)

\* a rejected promise (transport failure) of any capability
Reject(message) == [kind |-> "reject", message |-> message]

\* groq.chat.completions.create resolved: choices[0]?.message?.content
Completion(content) == [kind |-> "fulfil", content |-> content]

\* model.generateContent resolved: result.response.text()
Generated(text) == [kind |-> "fulfil", text |-> text]

\* fetch resolved: response.ok, response.status, and the body
HttpResponse(ok, status, body) ==
    [kind |-> "fulfil", ok |-> ok, status |-> status, body |-> body]

\* v?.k
OptGet(v, k) == IF CannotRead(v) THEN Undefined ELSE Get(v, k)

\* messageHistory = [] default parameter
DefaultHistory(messageHistory) ==
    IF messageHistory.t = "undefined" THEN Arr(<<>>) ELSE messageHistory

\* new Error(prefix + error.message)
Wrap(prefix, r) == IF r.threw THEN Threw(Str(<<prefix>> \o r.message.s)) ELSE r

-----------------------------------------------------------------------------
(* determineIntent, functions.js 33-167                                    *)

\* !transcript || typeof transcript !== "string"
InvalidTranscript(transcript) == ~Truthy(transcript) \/ ~IsString(transcript)

\* lines 33-134: up to the classification call
determineIntentEnter(transcript, messageHistory) ==
    IF InvalidTranscript(transcript)
    THEN Threw(Lit("Invalid transcript parameter"))
    ELSE sanitizeMessageHistory(DefaultHistory(messageHistory))

\* line 165: the result substituted for every classification failure
IntentFallback ==
    Obj([intent |-> Lit("genral_shopping"),
         confidence |-> Decimal(8)])

\* lines 152-160: the intent literals the validation accepts
RecognizedIntent(intent) ==
    /\ Truthy(intent)
    /\ \/ StrictEq(intent, Lit("greeting"))
       \/ StrictEq(intent, Lit("shopping"))
       \/ StrictEq(intent, Lit("unclear"))
       \/ StrictEq(intent, Lit("general_shopping"))

\* lines 136-166: from the settled classification call to the result
determineIntentResume(completion) ==
    LET attempt ==
            IF completion.kind = "reject" THEN Threw(completion.message)
            ELSE IF ~Truthy(completion.content)
            THEN Threw(Lit("Empty response from Groq API"))
            ELSE LET parsed == JSONparse(completion.content)
                 IN  IF parsed.threw THEN parsed
                     ELSE IF CannotRead(parsed.value)
                     THEN Threw(Lit("Cannot read properties of null (reading 'intent')"))
                     ELSE IF ~RecognizedIntent(Get(parsed.value, "intent"))
                     THEN Threw(Lit("Invalid intent received"))
                     ELSE parsed
    IN  IF attempt.threw THEN Ret(IntentFallback) ELSE attempt

-----------------------------------------------------------------------------
(* handleShoppingIntent, part_000 105-185                                  *)

Birthday == <<"b", "i", "r", "t", "h", "d", "a", "y">>
Party == <<"p", "a", "r", "t", "y">>

\* lines 105-145: up to the extraction call
handleShoppingIntentEnter(transcript, messageHistory) ==
    IF InvalidTranscript(transcript)
    THEN Threw(Lit("Invalid transcript parameter"))
    ELSE sanitizeMessageHistory(DefaultHistory(messageHistory))

\* lines 162-180: the inner try and its keyword fallback
parseSearchQuery(transcript, response) ==
    LET parsed == JSONparse(response)
        attempt ==
            IF parsed.threw THEN parsed
            ELSE IF CannotRead(parsed.value)
            THEN Threw(Lit("Cannot read properties of null (reading 'searchQuery')"))
            ELSE IF ~Truthy(Get(parsed.value, "searchQuery"))
            THEN Threw(Lit("No search query found in response"))
            ELSE parsed
        lower == ToLowerCase(transcript.s)
    IN  IF ~attempt.threw THEN attempt
        ELSE IF Includes(lower, Birthday) \/ Includes(lower, Party)
        THEN Ret(Obj([searchQuery |-> Lit("birthday party supplies"),
                      category |-> Lit("party supplies")]))
        ELSE Wrap("Failed to parse Groq response: ", attempt)

\* lines 147-184: from the settled extraction call to the result
handleShoppingIntentResume(transcript, completion) ==
    LET response == completion.content
        attempt ==
            IF completion.kind = "reject" THEN Threw(completion.message)
            ELSE IF CannotRead(response)
            THEN Threw(Lit("Empty response from Groq API"))
            ELSE IF ~IsString(response)
            THEN Threw(Lit("response?.trim is not a function"))
            ELSE IF Trim(response.s) = <<>>
            THEN Threw(Lit("Empty response from Groq API"))
            ELSE parseSearchQuery(transcript, response)
    IN  Wrap("Groq API failed: ", attempt)

-----------------------------------------------------------------------------
(* searchProducts, functions.js 169-207                                    *)

\* lines 169-180: the checks and the URL, before the request is sent
searchProductsEnter(query, environment) ==
    IF ~Truthy(query) \/ ~IsString(query)
    THEN Threw(Lit("Invalid query parameter"))
    ELSE IF ~environment.RAPIDAPI_KEY
    THEN Threw(Lit("Missing RapidAPI key"))
    ELSE LET encoded == encodeURIComponent(query)
         IN  IF encoded.threw THEN encoded
             ELSE Ret(Str(<<"https://real-time-amazon-data.p.rapidapi.com/search?query=">>
                          \o encoded.value.s
                          \o <<"&page=1&country=US&sort_by=RELEVANCE&product_condition=ALL">>))

\* lines 182-206: from the settled fetch to the product list
searchProductsResume(response) ==
    LET attempt ==
            IF response.kind = "reject" THEN Threw(response.message)
            ELSE IF ~response.ok
            THEN Threw(Str(<<"API error: ", ToString(response.status), " - ">>
                           \o response.body.s))
            ELSE LET data == JSONparse(response.body)
                 IN  IF data.threw THEN data
                     ELSE LET products == OptGet(OptGet(data.value, "data"), "products")
                          IN  IF Truthy(products) /\ IsArray(products)
                              THEN Ret(products)
                              ELSE Threw(Lit("No products found in API response"))
    IN  Wrap("Failed to fetch products: ", attempt)

-----------------------------------------------------------------------------
(* rankProducts, functions.js 209-257, and rankProductRecommendations,     *)
(* functions.js 598-646                                                    *)

Min2(a, b) == IF a < b THEN a ELSE b

\* products.slice(0, 3)
RankProductsLimit == 3

\* products.slice(0, 5)
RankProductRecommendationsLimit == 5

\* rankProductsItem copying the raw properties, without the fallbacks
rankProductsItemRaw(product, index) ==
    Ret(Obj([rank |-> Num(index + 1),
             title |-> Get(product, "product_title"),
             price |-> Get(product, "product_price"),
             link |-> Get(product, "product_url"),
             image |-> Get(product, "product_photo"),
             shipping |-> Get(product, "delivery"),
             rating |-> Get(product, "product_star_rating"),
             reason |-> Lit("Top matching results")]))

\* lines 219-254: the callback of slice(...).map, one normalized product
rankProductsItem(product, index) ==
    IF CannotRead(product)
    THEN Threw(Lit("Cannot read properties of null (reading 'product_title')"))
    ELSE LET title == JsOr(Get(product, "product_title"), Lit("N/A"))
             price == JsOr(Get(product, "product_price"), Lit("N/A"))
             image == JsOr(Get(product, "product_photo"), Lit("N/A"))
             encoded == encodeURIComponent(title)
             url == Get(product, "product_url")
             shipping == JsOr(Get(product, "delivery"), Lit("N/A"))
             star == Get(product, "product_star_rating")
             rating ==
                 IF Truthy(star)
                 THEN Str(ToStringJs(star) \o <<"/5 (">>
                          \o ToStringJs(JsOr(Get(product, "product_num_ratings"), Num(0)))
                          \o <<" reviews)">>)
                 ELSE Lit("Not rated")
         IN  IF ~Truthy(url) /\ encoded.threw
             THEN encoded
             ELSE Ret(Obj([rank |-> Num(index + 1),
                           title |-> title,
                           price |-> price,
                           link |-> IF Truthy(url) THEN url
                                    ELSE Str(<<"https://www.amazon.com/s?k=">>
                                             \o encoded.value.s),
                           image |-> image,
                           shipping |-> shipping,
                           rating |-> rating,
                           reason |-> Lit("Top matching results")]))

\* rankProducts without the slice: every product is kept
rankProductsNoSlice(products, userQuery) ==
    IF ~Truthy(products) \/ ~IsArray(products)
    THEN Threw(Lit("Invalid products data structure"))
    ELSE IF Len(products.items) = 0
    THEN Threw(Lit("No products available"))
    ELSE LET mapped == [i \in 1..Len(products.items) |->
                           rankProductsItem(products.items[i], i - 1)]
         IN  Ret(Arr([i \in 1..Len(mapped) |-> mapped[i].value]))

rankProducts(products, userQuery) ==
    IF ~Truthy(products) \/ ~IsArray(products)
    THEN Threw(Lit("Invalid products data structure"))
    ELSE IF Len(products.items) = 0
    THEN Threw(Lit("No products available"))
    ELSE LET top == SubSeq(products.items, 1, Min2(RankProductsLimit, Len(products.items)))
             mapped == [i \in 1..Len(top) |-> rankProductsItem(top[i], i - 1)]
             bad == {i \in 1..Len(mapped) : mapped[i].threw}
         IN  IF bad # {}
             THEN mapped[CHOOSE i \in bad : \A j \in bad : i <= j]
             ELSE Ret(Arr([i \in 1..Len(mapped) |-> mapped[i].value]))

\* lines 608-643: the callback of slice(...).map, one normalized product
rankProductRecommendationsItem(product, index) ==
    IF CannotRead(product)
    THEN Threw(Lit("Cannot read properties of null (reading 'product_title')"))
    ELSE LET title == JsOr(Get(product, "product_title"), Lit("N/A"))
             price == JsOr(Get(product, "product_price"), Lit("N/A"))
             image == JsOr(Get(product, "product_photo"), Lit("N/A"))
             encoded == encodeURIComponent(title)
             url == Get(product, "product_url")
             shipping == JsOr(Get(product, "delivery"), Lit("N/A"))
             star == Get(product, "product_star_rating")
             rating ==
                 IF Truthy(star)
                 THEN Str(ToStringJs(star) \o <<"/5 (">>
                          \o ToStringJs(JsOr(Get(product, "product_num_ratings"), Num(0)))
                          \o <<" reviews)">>)
                 ELSE Lit("Not rated")
         IN  IF ~Truthy(url) /\ encoded.threw
             THEN encoded
             ELSE Ret(Obj([rank |-> Num(index + 1),
                           title |-> title,
                           price |-> price,
                           link |-> IF Truthy(url) THEN url
                                    ELSE Str(<<"https://www.amazon.com/s?k=">>
                                             \o encoded.value.s),
                           image |-> image,
                           shipping |-> shipping,
                           rating |-> rating,
                           reason |-> Lit("Top matching results")]))

\* rankProductRecommendations keeping three products, as its comment says
rankProductRecommendationsTopThree(products, userQuery) ==
    IF ~Truthy(products) \/ ~IsArray(products)
    THEN Threw(Lit("Invalid products data structure"))
    ELSE IF Len(products.items) = 0
    THEN Threw(Lit("No products available"))
    ELSE LET top == SubSeq(products.items, 1, Min2(3, Len(products.items)))
             mapped == [i \in 1..Len(top) |-> rankProductRecommendationsItem(top[i], i - 1)]
             bad == {i \in 1..Len(mapped) : mapped[i].threw}
         IN  IF bad # {}
             THEN mapped[CHOOSE i \in bad : \A j \in bad : i <= j]
             ELSE Ret(Arr([i \in 1..Len(mapped) |-> mapped[i].value]))

\* rankProductRecommendations without the length check: [] maps to []
rankProductRecommendationsNoEmptyCheck(products, userQuery) ==
    IF ~Truthy(products) \/ ~IsArray(products)
    THEN Threw(Lit("Invalid products data structure"))
    ELSE LET top == SubSeq(products.items, 1,
                           Min2(RankProductRecommendationsLimit, Len(products.items)))
             mapped == [i \in 1..Len(top) |-> rankProductRecommendationsItem(top[i], i - 1)]
             bad == {i \in 1..Len(mapped) : mapped[i].threw}
         IN  IF bad # {}
             THEN mapped[CHOOSE i \in bad : \A j \in bad : i <= j]
             ELSE Ret(Arr([i \in 1..Len(mapped) |-> mapped[i].value]))

rankProductRecommendations(products, userQuery) ==
    IF ~Truthy(products) \/ ~IsArray(products)
    THEN Threw(Lit("Invalid products data structure"))
    ELSE IF Len(products.items) = 0
    THEN Threw(Lit("No products available"))
    ELSE LET top == SubSeq(products.items, 1, Min2(RankProductRecommendationsLimit, Len(products.items)))
             mapped == [i \in 1..Len(top) |-> rankProductRecommendationsItem(top[i], i - 1)]
             bad == {i \in 1..Len(mapped) : mapped[i].threw}
         IN  IF bad # {}
             THEN mapped[CHOOSE i \in bad : \A j \in bad : i <= j]
             ELSE Ret(Arr([i \in 1..Len(mapped) |-> mapped[i].value]))

-----------------------------------------------------------------------------
(* handleShoppingQuery, part_000 13-103                                    *)

Gift == <<"g", "i", "f", "t">>
Present == <<"p", "r", "e", "s", "e", "n", "t">>
Deal == <<"d", "e", "a", "l">>
Sale == <<"s", "a", "l", "e">>
Choose == <<"c", "h", "o", "o", "s", "e">>
Decide == <<"d", "e", "c", "i", "d", "e">>

GiftAdvice ==
    Lit("For gifts, consider the recipient's interests and hobbies. Popular options include books, personalized items, experience gifts, or subscription services. Think about what would make them happy or solve a problem they have.")
DealAdvice ==
    Lit("To find the best deals, check weekly ads, sign up for store newsletters, and look for clearance sections both in-store and online. Many stores offer price matching if you find a better deal elsewhere.")
ChooseAdvice ==
    Lit("When deciding between options, consider your budget, how often you'll use the item, and any specific features you need. Reading reviews and comparing specifications can help you make an informed decision.")
GenericAdvice ==
    Lit("I'd be happy to help with your shopping question. Could you provide a few more details about what you're looking for? For example, are you shopping for a specific occasion or type of product?")

\* lines 13-40: up to the advice call
handleShoppingQueryEnter(transcript, messageHistory) ==
    IF InvalidTranscript(transcript)
    THEN Threw(Lit("Invalid transcript parameter"))
    ELSE sanitizeMessageHistory(DefaultHistory(messageHistory))

\* text.match(/\{.*\}/s): the brace-delimited part a text carries, or null
MatchBraces(text) == IF "braced" \in DOMAIN text THEN text.braced ELSE Null

\* cannedAdvice trying the deal keywords before the gift keywords
cannedAdviceDealFirst(transcript) ==
    LET lower == ToLowerCase(transcript.s)
    IN  IF Includes(lower, Deal) \/ Includes(lower, Sale)
        THEN Obj([message |-> DealAdvice])
        ELSE IF Includes(lower, Gift) \/ Includes(lower, Present)
        THEN Obj([message |-> GiftAdvice])
        ELSE IF Includes(lower, Choose) \/ Includes(lower, Decide)
        THEN Obj([message |-> ChooseAdvice])
        ELSE Obj([message |-> GenericAdvice])

\* lines 70-101: the canned advice, by ordered keyword match
cannedAdvice(transcript) ==
    LET lower == ToLowerCase(transcript.s)
    IN  IF Includes(lower, Gift) \/ Includes(lower, Present)
        THEN Obj([message |-> GiftAdvice])
        ELSE IF Includes(lower, Deal) \/ Includes(lower, Sale)
        THEN Obj([message |-> DealAdvice])
        ELSE IF Includes(lower, Choose) \/ Includes(lower, Decide)
        THEN Obj([message |-> ChooseAdvice])
        ELSE Obj([message |-> GenericAdvice])

\* handleShoppingQuery without the catch of lines 67-102: a failure of the
\* call or of the parsing leaves the function
handleShoppingQueryResumeRethrows(transcript, generated) ==
    LET text == generated.text
        direct == JSONparse(text)
        jsonMatch == MatchBraces(text)
        parsed ==
            IF ~direct.threw THEN direct
            ELSE IF Truthy(jsonMatch) THEN JSONparse(jsonMatch)
            ELSE Ret(Obj([message |-> text]))
    IN  IF generated.kind = "reject" THEN Threw(generated.message)
        ELSE IF parsed.threw THEN parsed
        ELSE IF CannotRead(parsed.value)
        THEN Threw(Lit("Cannot read properties of null (reading 'message')"))
        ELSE IF ~Truthy(Get(parsed.value, "message"))
        THEN Threw(Lit("No message found in response"))
        ELSE parsed

\* lines 42-102: from the settled advice call to the result
handleShoppingQueryResume(transcript, generated) ==
    LET text == generated.text
        direct == JSONparse(text)
        jsonMatch == MatchBraces(text)
        parsed ==
            IF ~direct.threw THEN direct
            ELSE IF Truthy(jsonMatch) THEN JSONparse(jsonMatch)
            ELSE Ret(Obj([message |-> text]))
        attempt ==
            IF generated.kind = "reject" THEN Threw(generated.message)
            ELSE IF parsed.threw THEN parsed
            ELSE IF CannotRead(parsed.value)
            THEN Threw(Lit("Cannot read properties of null (reading 'message')"))
            ELSE IF ~Truthy(Get(parsed.value, "message"))
            THEN Threw(Lit("No message found in response"))
            ELSE parsed
    IN  IF attempt.threw THEN Ret(cannedAdvice(transcript)) ELSE attempt

-----------------------------------------------------------------------------
(* getRandomIndex and handleGreetingIntent, part_000 187-200               *)

\* greetings_voice_bot.js is not among the sources: the lists are non-empty
\* ordered sequences of phrases
greetings == <<Lit("Hello! How can I help you today?"),
               Lit("Hi there! What are you shopping for?"),
               Lit("Welcome! What can I find for you?")>>

clarifications == <<Lit("Could you tell me a bit more?"),
                    Lit("I'm not sure I understood. What do you need?")>>

\* a Uint32 is held as its two 16-bit halves, value = hi * 65536 + lo
Half == 65536

\* array[0] % max had the value been drawn into an Int32Array: the
\* remainder of a negative value is negative
getRandomIndexSigned(max, drawn) ==
    IF 2 * drawn.hi < Half
    THEN (((drawn.hi % max) * (Half % max)) + (drawn.lo % max)) % max
    ELSE 0 - (((((Half - 1 - drawn.hi) % max) * (Half % max))
                + ((Half - drawn.lo) % max)) % max)

\* array[0] % max for the 32-bit value drawn
getRandomIndex(max, drawn) ==
    (((drawn.hi % max) * (Half % max)) + (drawn.lo % max)) % max

\* list[index]: undefined outside 0..length-1
At(list, index) ==
    IF index + 1 \in DOMAIN list THEN list[index + 1] ELSE Undefined

handleGreetingIntent(drawn) ==
    Ret(Obj([intent |-> Lit("greeting"),
             message |-> At(greetings, getRandomIndex(Len(greetings), drawn)),
             timestamp |-> Lit("<toISOString>")]))

-----------------------------------------------------------------------------
(* Requests: one activation of getMessageFromAgent or                      *)
(* getShoppingRecommendations, suspended at its capability calls           *)

\* an activation before it is called
IdleRequest ==
    [pc |-> "idle", fn |-> "none",
     transcript |-> Undefined, messageHistory |-> Undefined,
     intentResult |-> Undefined, searchResult |-> Undefined,
     productResults |-> Undefined,
     stages |-> <<>>, calls |-> <<>>, received |-> <<>>,
     settled |-> "pending", result |-> Undefined]

\* return value: the promise of the async function resolves
Finish(rq, value) ==
    [rq EXCEPT !.pc = "done", !.settled = "fulfilled", !.result = value]

\* an exception leaves the async function: its promise rejects
Escape(rq, error) ==
    [rq EXCEPT !.pc = "done", !.settled = "rejected",
               !.result = Obj([message |-> error.message])]

\* the awaited capability call settles with this outcome
Receive(rq, outcome) == [rq EXCEPT !.received = Append(@, outcome)]

\* a handler is entered
Enter(rq, stage) == [rq EXCEPT !.stages = Append(@, stage)]

\* await of a capability call: the request is sent and the function suspends
Await(rq, stage, capability, argument) ==
    [rq EXCEPT !.pc = stage,
               !.calls = Append(@, [capability |-> capability, argument |-> argument])]

\* the bindings of the module scope of functions.js: imports (lines 2-9),
\* constants (lines 11-15) and function declarations
FunctionsJsBindings ==
    {"Groq", "clarifications", "handleShoppingQuery", "handleShoppingIntent",
     "handleGreetingIntent", "GoogleGenerativeAI", "groq", "genAI", "googleModel",
     "sanitizeMessageHistory", "determineIntent", "searchProducts", "rankProducts",
     "getMessageFromAgent", "getProductRecommendationsAPI",
     "processSupportTextWithGemini", "processSupportImageWithGroq",
     "rankProductRecommendations", "getShoppingRecommendations"}

\* getRandomIndex(max) evaluated in functions.js (line 357): a ReferenceError
\* unless the module scope binds the name
callGetRandomIndex(max, drawn) ==
    IF "getRandomIndex" \in FunctionsJsBindings
    THEN Ret(getRandomIndex(max, drawn))
    ELSE Threw(Lit("getRandomIndex is not defined"))

(* The envelopes of getMessageFromAgent, functions.js 259-392 *)

InvalidInput ==
    Obj([error |-> Lit("Invalid input"),
         message |-> Lit("Please provide a valid product request.")])

IntentDetectionFailed(error) ==
    Obj([error |-> Lit("Failed to understand request"),
         message |-> Lit("Could you please clarify your request?"),
         details |-> error.message])

GreetingFailed(error) ==
    Obj([intent |-> Lit("greeting"),
         message |-> Lit("Hello! How can I assist you today?"),
         error |-> error.message])

QueryExtractionFailed(error) ==
    Obj([error |-> Lit("Failed to understand product request"),
         message |-> Lit("Could you please clarify what product you're looking for?"),
         details |-> error.message])

SearchFailed(error) ==
    Obj([error |-> Lit("Failed to fetch products"),
         message |-> Lit("Sorry, I couldn't search for products right now. Please try again later."),
         details |-> error.message])

RankingFailed(error) ==
    Obj([error |-> Lit("Failed to rank products"),
         message |-> Lit("I found some products but couldn't rank them properly. Please try again."),
         details |-> error.message])

NoProductsFound ==
    Obj([error |-> Lit("No suitable products found"),
         message |-> Lit("I couldn't find any suitable products for your request. Try being more specific.")])

Recommendations(searchQuery, topProducts) ==
    Obj([intent |-> Lit("shopping"),
         success |-> Bool(TRUE),
         query |-> searchQuery,
         recommendations |-> topProducts,
         message |-> Str(<<"Here are my top ", ToString(Len(topProducts.items)),
                           " recommendations for \"">>
                         \o ToStringJs(searchQuery) \o <<"\":">>)])

Clarification(intentResult, index) ==
    Obj([intent |-> Lit("unclear"),
         message |-> At(clarifications, index),
         requiresClarification |-> Bool(TRUE),
         clarification |-> JsOr(Get(intentResult, "clarification"),
                                Lit("Could you clarify your request?"))])

\* the general-shopping envelope without its success field
GeneralShoppingUnmarked(generalShoppingQuery) ==
    Obj([intent |-> Lit("general_shopping"),
         message |-> Get(generalShoppingQuery, "message")])

GeneralShopping(generalShoppingQuery) ==
    Obj([intent |-> Lit("general_shopping"),
         success |-> Bool(TRUE),
         message |-> Get(generalShoppingQuery, "message")])

GeneralShoppingFailed(error) ==
    Obj([error |-> Lit("Failed to understand general shopping request"),
         message |-> Lit("Could you please clarify what you're looking for?"),
         details |-> error.message])

SystemError(error) ==
    Obj([error |-> Lit("System error"),
         message |-> Lit("Sorry, something went wrong. Please try again."),
         details |-> error.message])

\* no outermost catch: the exception leaves the async function
outerCatchMissing(rq, error) == Escape(rq, error)

\* lines 384-391 and 722-729: the outermost catch
outerCatch(rq, error) == Finish(rq, SystemError(error))

-----------------------------------------------------------------------------
(* getMessageFromAgent, functions.js 259-392                               *)

\* getMessageFromAgent without its own transcript check
getMessageFromAgentCallUnchecked(transcript, messageHistory) ==
    LET rq == [IdleRequest EXCEPT !.fn = "getMessageFromAgent",
                                  !.transcript = transcript,
                                  !.messageHistory = DefaultHistory(messageHistory)]
        entered == determineIntentEnter(transcript, rq.messageHistory)
        at == Enter(rq, "determineIntent")
    IN  IF entered.threw THEN Finish(at, IntentDetectionFailed(entered))
        ELSE Await(at, "determineIntent", "classify", transcript)

\* lines 259-279: the call, up to the classification call
getMessageFromAgentCall(transcript, messageHistory) ==
    LET rq == [IdleRequest EXCEPT !.fn = "getMessageFromAgent",
                                  !.transcript = transcript,
                                  !.messageHistory = DefaultHistory(messageHistory)]
        entered == determineIntentEnter(transcript, rq.messageHistory)
        at == Enter(rq, "determineIntent")
    IN  IF InvalidTranscript(transcript) THEN Finish(rq, InvalidInput)
        ELSE IF entered.threw THEN Finish(at, IntentDetectionFailed(entered))
        ELSE Await(at, "determineIntent", "classify", transcript)

\* lines 283-293
greetingBranch(rq, drawn) ==
    LET at == Enter(rq, "handleGreetingIntent")
        greeted == handleGreetingIntent(drawn)
    IN  IF greeted.threw THEN Finish(at, GreetingFailed(greeted))
        ELSE Finish(at, greeted.value)

\* lines 294-306: the shopping branch up to the extraction call
shoppingBranch(rq) ==
    LET at == Enter(rq, "handleShoppingIntent")
        entered == handleShoppingIntentEnter(rq.transcript, rq.messageHistory)
    IN  IF entered.threw THEN Finish(at, QueryExtractionFailed(entered))
        ELSE Await(at, "handleShoppingIntent", "extract", rq.transcript)

\* lines 354-361
unclearBranch(rq, drawn) ==
    LET index == callGetRandomIndex(Len(clarifications), drawn)
    IN  IF index.threw THEN outerCatch(rq, index)
        ELSE Finish(rq, Clarification(rq.intentResult, index.value))

\* lines 362-369: the general-shopping branch up to the advice call
generalShoppingBranch(rq) ==
    LET at == Enter(rq, "handleShoppingQuery")
        entered == handleShoppingQueryEnter(rq.transcript, rq.messageHistory)
    IN  IF entered.threw THEN Finish(at, GeneralShoppingFailed(entered))
        ELSE Await(at, "handleShoppingQuery", "advise", rq.transcript)

\* getMessageFromAgent treating every result of confidence below 0.5 as
\* unclear
getMessageFromAgentClassifiedByConfidence(rq, completion, drawn) ==
    LET classified == determineIntentResume(completion)
        got == [rq EXCEPT !.intentResult = classified.value]
        intent == Get(classified.value, "intent")
        confidence == Get(classified.value, "confidence")
    IN  IF confidence.t = "number" /\ "scale" \in DOMAIN confidence
           /\ 2 * confidence.n < confidence.scale
        THEN unclearBranch(got, drawn)
        ELSE IF StrictEq(intent, Lit("greeting")) THEN greetingBranch(got, drawn)
        ELSE IF StrictEq(intent, Lit("shopping")) THEN shoppingBranch(got)
        ELSE IF StrictEq(intent, Lit("unclear")) THEN unclearBranch(got, drawn)
        ELSE IF StrictEq(intent, Lit("general_shopping")) THEN generalShoppingBranch(got)
        ELSE Finish(got, Undefined)

\* lines 271-383: the classification call settled; the branch on the intent
getMessageFromAgentClassified(rq, completion, drawn) ==
    LET classified == determineIntentResume(completion)
        got == [rq EXCEPT !.intentResult = classified.value]
        intent == Get(classified.value, "intent")
    IN  IF classified.threw THEN Finish(rq, IntentDetectionFailed(classified))
        ELSE IF StrictEq(intent, Lit("greeting")) THEN greetingBranch(got, drawn)
        ELSE IF StrictEq(intent, Lit("shopping")) THEN shoppingBranch(got)
        ELSE IF StrictEq(intent, Lit("unclear")) THEN unclearBranch(got, drawn)
        ELSE IF StrictEq(intent, Lit("general_shopping")) THEN generalShoppingBranch(got)
        ELSE Finish(got, Undefined)

\* the extraction failure is not returned: the search runs on the fallback
\* query "undefined"
getMessageFromAgentExtractedFallsThrough(rq, completion, environment) ==
    LET extracted == handleShoppingIntentResume(rq.transcript, completion)
        searchResult == IF extracted.threw THEN Obj([searchQuery |-> Lit("undefined")])
                        ELSE extracted.value
        got == [rq EXCEPT !.searchResult = searchResult]
        searchQuery == Get(searchResult, "searchQuery")
        started == searchProductsEnter(searchQuery, environment)
        at == Enter(got, "searchProducts")
    IN  IF started.threw THEN Finish(at, SearchFailed(started))
        ELSE Await(at, "searchProducts", "search", searchQuery)

\* lines 296-323: the extraction call settled; on a query, the search is started
getMessageFromAgentExtracted(rq, completion, environment) ==
    LET extracted == handleShoppingIntentResume(rq.transcript, completion)
        got == [rq EXCEPT !.searchResult = extracted.value]
        searchQuery == Get(extracted.value, "searchQuery")
        started == searchProductsEnter(searchQuery, environment)
        at == Enter(got, "searchProducts")
    IN  IF extracted.threw THEN Finish(rq, QueryExtractionFailed(extracted))
        ELSE IF started.threw THEN Finish(at, SearchFailed(started))
        ELSE Await(at, "searchProducts", "search", searchQuery)

\* a variant that keeps the extracted query in one binding of the module,
\* written by every request: the envelope names the query extracted last
getMessageFromAgentSearchedSharedQuery(rq, response) ==
    LET holders == {r \in DOMAIN req : req[r].searchResult.t = "object"}
        searchResult == req[CHOOSE r \in holders : \A q \in holders : q <= r].searchResult
        found == searchProductsResume(response)
        got == [rq EXCEPT !.productResults = found.value]
        at == Enter(got, "rankProducts")
        ranked == rankProducts(found.value, rq.transcript)
        topProducts == ranked.value
    IN  IF found.threw THEN Finish(rq, SearchFailed(found))
        ELSE IF ranked.threw THEN Finish(at, RankingFailed(ranked))
        ELSE IF ~Truthy(topProducts) \/ Len(topProducts.items) = 0
        THEN Finish(at, NoProductsFound)
        ELSE Finish(at, Recommendations(Get(searchResult, "searchQuery"), topProducts))

\* a variant that backs off on a timer when the search failed
getMessageFromAgentSearchedBacksOff(rq, response) ==
    IF searchProductsResume(response).threw
    THEN [rq EXCEPT !.pc = "setTimeout"]
    ELSE Finish(Enter(rq, "rankProducts"), NoProductsFound)

\* lines 325-353: the search settled; the products are ranked and the envelope built
getMessageFromAgentSearched(rq, response) ==
    LET found == searchProductsResume(response)
        got == [rq EXCEPT !.productResults = found.value]
        at == Enter(got, "rankProducts")
        ranked == rankProducts(found.value, rq.transcript)
        topProducts == ranked.value
    IN  IF found.threw THEN Finish(rq, SearchFailed(found))
        ELSE IF ranked.threw THEN Finish(at, RankingFailed(ranked))
        ELSE IF ~Truthy(topProducts) \/ Len(topProducts.items) = 0
        THEN Finish(at, NoProductsFound)
        ELSE Finish(at, Recommendations(Get(rq.searchResult, "searchQuery"), topProducts))

\* lines 364-382: the advice call settled
getMessageFromAgentAdvised(rq, generated) ==
    LET generalShoppingQuery == handleShoppingQueryResume(rq.transcript, generated)
    IN  IF generalShoppingQuery.threw
        THEN Finish(rq, GeneralShoppingFailed(generalShoppingQuery))
        ELSE Finish(rq, GeneralShopping(generalShoppingQuery.value))

-----------------------------------------------------------------------------
(* getShoppingRecommendations, functions.js 648-730                        *)

\* lines 648-671: the call, up to the extraction call
getShoppingRecommendationsCall(transcript, messageHistory) ==
    LET rq == [IdleRequest EXCEPT !.fn = "getShoppingRecommendations",
                                  !.transcript = transcript,
                                  !.messageHistory = DefaultHistory(messageHistory)]
        entered == handleShoppingIntentEnter(transcript, rq.messageHistory)
        at == Enter(rq, "handleShoppingIntent")
    IN  IF InvalidTranscript(transcript) THEN Finish(rq, InvalidInput)
        ELSE IF entered.threw THEN Finish(at, QueryExtractionFailed(entered))
        ELSE Await(at, "handleShoppingIntent", "extract", transcript)

\* getShoppingRecommendations calling the extractor a second time when its
\* first call failed
getShoppingRecommendationsExtractedRetries(rq, completion, environment) ==
    LET extracted == handleShoppingIntentResume(rq.transcript, completion)
        got == [rq EXCEPT !.searchResult = extracted.value]
        searchQuery == Get(extracted.value, "searchQuery")
        started == searchProductsEnter(searchQuery, environment)
        at == Enter(got, "searchProducts")
    IN  IF extracted.threw /\ Len(rq.calls) < 2
        THEN Await(rq, "handleShoppingIntent", "extract", rq.transcript)
        ELSE IF extracted.threw THEN Finish(rq, QueryExtractionFailed(extracted))
        ELSE IF started.threw THEN Finish(at, SearchFailed(started))
        ELSE Await(at, "searchProducts", "search", searchQuery)

\* lines 663-688: the extraction call settled; on a query, the search is started
getShoppingRecommendationsExtracted(rq, completion, environment) ==
    LET extracted == handleShoppingIntentResume(rq.transcript, completion)
        got == [rq EXCEPT !.searchResult = extracted.value]
        searchQuery == Get(extracted.value, "searchQuery")
        started == searchProductsEnter(searchQuery, environment)
        at == Enter(got, "searchProducts")
    IN  IF extracted.threw THEN Finish(rq, QueryExtractionFailed(extracted))
        ELSE IF started.threw THEN Finish(at, SearchFailed(started))
        ELSE Await(at, "searchProducts", "search", searchQuery)

\* lines 690-721: the search settled; the products are ranked and the envelope built
getShoppingRecommendationsSearched(rq, response) ==
    LET found == searchProductsResume(response)
        got == [rq EXCEPT !.productResults = found.value]
        at == Enter(got, "rankProductRecommendations")
        ranked == rankProductRecommendations(found.value, rq.transcript)
        topProducts == ranked.value
    IN  IF found.threw THEN Finish(rq, SearchFailed(found))
        ELSE IF ranked.threw THEN Finish(at, RankingFailed(ranked))
        ELSE IF ~Truthy(topProducts) \/ Len(topProducts.items) = 0
        THEN Finish(at, NoProductsFound)
        ELSE Finish(at, Recommendations(Get(rq.searchResult, "searchQuery"), topProducts))

-----------------------------------------------------------------------------
(* processSupportTextWithGemini, functions.js 426-492, and                 *)
(* processSupportImageWithGroq, functions.js 495-595                       *)

\* lines 426-434: the checks and the sanitizing, before the try block
processSupportTextWithGeminiEnter(problemDescription, messageHistory) ==
    IF ~Truthy(problemDescription) \/ ~IsString(problemDescription)
    THEN Threw(Lit("Invalid problem description"))
    ELSE sanitizeMessageHistory(DefaultHistory(messageHistory))

\* { success: true, ...parsed }: a success property of parsed wins
SpreadOverSuccess(parsed) == Obj(parsed.f @@ [success |-> Bool(TRUE)])

\* lines 459-491: from the settled analysis call to the result
processSupportTextWithGeminiResume(generated) ==
    LET text == generated.text
        direct == JSONparse(text)
        jsonMatch == MatchBraces(text)
        parsed ==
            IF ~direct.threw THEN direct
            ELSE IF Truthy(jsonMatch) THEN JSONparse(jsonMatch)
            ELSE Ret(Obj([response |-> text,
                          requiresHuman |-> Bool(TRUE),
                          nextSteps |-> Arr(<<Lit("Please provide more details about your issue")>>)]))
        attempt ==
            IF generated.kind = "reject" THEN Threw(generated.message)
            ELSE IF parsed.threw THEN parsed
            ELSE IF CannotRead(parsed.value)
            THEN Threw(Lit("Cannot read properties of null (reading 'response')"))
            ELSE IF ~Truthy(Get(parsed.value, "response"))
            THEN Threw(Lit("No response found in Gemini output"))
            ELSE Ret(SpreadOverSuccess(parsed.value))
    IN  Wrap("Failed to process support text: ", attempt)

\* lines 495-502: the check of the image payload
processSupportImageWithGroqEnter(imageBase64, problemContext) ==
    IF ~Truthy(imageBase64) \/ ~IsString(imageBase64)
    THEN Threw(Lit("Invalid image data"))
    ELSE Ret(JsOr(problemContext, Lit("No additional context provided")))

\* lines 585-593: the standardized error response
ImageFailure(error) ==
    Obj([success |-> Bool(FALSE),
         description |-> Lit("Failed to process image"),
         issues |-> Arr(<<>>),
         suggestions |-> Arr(<<>>),
         error |-> error.message])

\* lines 542-594: from the settled vision call to the result
processSupportImageWithGroqResume(completion) ==
    LET response == completion.content
        direct == JSONparse(response)
        parsed ==
            IF direct.threw
            THEN Obj([description |-> Lit("Image not processed"),
                      issues |-> Arr(<<>>), suggestions |-> Arr(<<>>)])
            ELSE direct.value
        checked ==
            IF \/ ~Truthy(Get(parsed, "description"))
               \/ ~IsArray(Get(parsed, "issues"))
               \/ ~IsArray(Get(parsed, "suggestions"))
            THEN Obj([description |-> Lit("Invalid response format"),
                      issues |-> Arr(<<>>), suggestions |-> Arr(<<>>)])
            ELSE parsed
        attempt ==
            IF completion.kind = "reject" THEN Threw(completion.message)
            ELSE IF ~Truthy(response)
            THEN Threw(Lit("Empty response from Groq API"))
            ELSE IF CannotRead(parsed)
            THEN Threw(Lit("Cannot read properties of null (reading 'description')"))
            ELSE Ret(SpreadOverSuccess(checked))
    IN  IF attempt.threw THEN Ret(ImageFailure(attempt)) ELSE attempt

-----------------------------------------------------------------------------
(* POST /support, app.js 353-462                                           *)

\* res.status(status).json(body)
Respond(rq, status, body) ==
    [rq EXCEPT !.pc = "done", !.status = status, !.result = body]

\* lines 379-448: the handler from one of its four analyzer blocks on, up
\* to the next await or to the response
RECURSIVE postSupportFrom(_, _)
postSupportFrom(rq, block) ==
    LET problemDescription == Get(rq.body, "problemDescription")
        imageBase64 == Get(rq.body, "imageBase64")
        text == processSupportTextWithGeminiEnter(problemDescription,
                                                  Get(rq.body, "messageHistory"))
        image == processSupportImageWithGroqEnter(imageBase64, problemDescription)
    IN  CASE block = 1 ->
                IF ~Truthy(problemDescription) THEN postSupportFrom(rq, 2)
                ELSE IF text.threw
                THEN postSupportFrom(
                        [rq EXCEPT !.textResponse =
                            Obj([error |-> Lit("Text processing failed"),
                                 message |-> Lit("Could not analyze your problem description"),
                                 details |-> text.message])], 2)
                ELSE Await(rq, "text1", "analyzeText", problemDescription)
          [] block = 2 ->
                IF ~Truthy(imageBase64) THEN postSupportFrom(rq, 3)
                ELSE IF image.threw
                THEN postSupportFrom(
                        [rq EXCEPT !.imageResponse =
                            Obj([error |-> Lit("Image processing failed"),
                                 message |-> Lit("Could not analyze your image"),
                                 details |-> image.message])], 3)
                ELSE Await(rq, "image1", "analyzeImage", imageBase64)
          [] block = 3 ->
                IF ~Truthy(problemDescription) THEN postSupportFrom(rq, 4)
                ELSE IF text.threw
                THEN postSupportFrom(
                        [rq EXCEPT !.textResponse = Lit("Text processing failed")], 4)
                ELSE Await(rq, "text2", "analyzeText", problemDescription)
          [] block = 4 ->
                IF ~Truthy(imageBase64) THEN postSupportFrom(rq, 5)
                ELSE IF image.threw
                THEN postSupportFrom(
                        [rq EXCEPT !.imageResponse =
                            JsOr(image.message, Lit("Image processing failed"))], 5)
                ELSE Await(rq, "image2", "analyzeImage", imageBase64)
          [] OTHER ->
                Respond(rq, 200,
                    Obj([success |-> Bool(TRUE),
                         timestamp |-> Lit("<toISOString>"),
                         textAnalysis |-> IF Truthy(problemDescription)
                                          THEN rq.textResponse ELSE Null,
                         imageAnalysis |-> IF Truthy(imageBase64)
                                           THEN rq.imageResponse ELSE Null]))

\* lines 353-377: the request arrives; the checks of the body
postSupportCall(body) ==
    LET rq == [pc |-> "idle", fn |-> "POST /support", body |-> body,
               textResponse |-> Null, imageResponse |-> Null,
               calls |-> <<>>, received |-> <<>>, status |-> 0, result |-> Undefined]
    IN  IF ~Truthy(body)
        THEN Respond(rq, 400,
                Obj([error |-> Lit("Missing request body"),
                     message |-> Lit("Please provide problem description and/or image")]))
        ELSE IF Get(body, "messageHistory").t = "null"
        THEN Respond(rq, 500,
                Obj([error |-> Lit("Server error"),
                     message |-> Lit("Failed to process your support request"),
                     details |-> Lit("Cannot read properties of null (reading 'length')")]))
        ELSE IF ~Truthy(Get(body, "problemDescription")) /\ ~Truthy(Get(body, "imageBase64"))
        THEN Respond(rq, 400,
                Obj([error |-> Lit("Missing input"),
                     message |-> Lit("Please provide either a problem description or an image")]))
        ELSE postSupportFrom(rq, 1)

\* lines 385-396 and 418-427: a text analysis settled
postSupportTextAnalyzed(rq, generated) ==
    LET analysed == processSupportTextWithGeminiResume(generated)
    IN  IF rq.pc = "text1"
        THEN postSupportFrom(
                [rq EXCEPT !.textResponse =
                    IF analysed.threw
                    THEN Obj([error |-> Lit("Text processing failed"),
                              message |-> Lit("Could not analyze your problem description"),
                              details |-> analysed.message])
                    ELSE analysed.value], 2)
        ELSE postSupportFrom(
                [rq EXCEPT !.textResponse =
                    IF analysed.threw THEN Lit("Text processing failed")
                    ELSE JsOr(Get(analysed.value, "response"),
                              JSONstringify(analysed.value).value)], 4)

\* lines 402-411 and 432-442: an image analysis settled
postSupportImageAnalyzed(rq, completion) ==
    LET analysed == processSupportImageWithGroqResume(completion)
    IN  IF rq.pc = "image1"
        THEN postSupportFrom([rq EXCEPT !.imageResponse = analysed.value], 3)
        ELSE postSupportFrom(
                [rq EXCEPT !.imageResponse =
                    JsOr(Get(analysed.value, "description"),
                         JSONstringify(analysed.value).value)], 5)

-----------------------------------------------------------------------------
(* POST /chat, app.js 37-105                                               *)

\* a POST /chat handler that answers 200 whatever the router returned
postChatRespondAlwaysOk(rq) ==
    [rq EXCEPT !.sent = Append(@,
        [status |-> 200,
         body |-> Obj([success |-> Bool(TRUE),
                       intent |-> Get(rq.result, "intent"),
                       message |-> Get(rq.result, "message"),
                       data |-> JsOr(Get(rq.result, "recommendations"), Null),
                       query |-> JsOr(Get(rq.result, "query"), Null),
                       timestamp |-> Lit("<toISOString>")])])]

\* lines 78-104: getMessageFromAgent settled; the response is sent
postChatRespond(rq) ==
    LET response == rq.result
        status == IF rq.settled = "rejected" THEN 500
                  ELSE IF Truthy(Get(response, "error")) THEN 400
                  ELSE 200
        body ==
            CASE status = 500 ->
                    Obj([error |-> Lit("Server error"),
                         message |-> Lit("Failed to process your request"),
                         details |-> Get(response, "message")])
              [] status = 400 ->
                    Obj([error |-> Get(response, "error"),
                         message |-> Get(response, "message"),
                         details |-> JsOr(Get(response, "details"), Null)])
              [] OTHER ->
                    Obj([success |-> Bool(TRUE),
                         intent |-> Get(response, "intent"),
                         message |-> Get(response, "message"),
                         data |-> JsOr(Get(response, "recommendations"), Null),
                         query |-> JsOr(Get(response, "query"), Null),
                         timestamp |-> Lit("<toISOString>")])
    IN  [rq EXCEPT !.sent = Append(@, [status |-> status, body |-> body])]

-----------------------------------------------------------------------------
(* Inputs and capability outcomes                                          *)

\* longest product list a search returns
MaxProducts == 6

SeqsUpTo(S, n) == UNION {[1..k -> S] : k \in 0..n}

Transcripts ==
    {Str(<<"h", "i">>),
     Str(<<"P", "a", "r", "t", "y">>),
     EmptyString, Undefined, Num(42)}

OkTurn == Obj([role |-> Lit("assistant"), content |-> Lit("Hello!")])

Histories ==
    {Undefined,
     Arr(<<OkTurn>>),
     Arr(<<OkTurn, Null>>),
     Lit("not an array")}

\* classification responses that parse to an object
ClassifierObjects ==
    {Obj([intent |-> Lit("greeting"), confidence |-> Decimal(9)]),
     Obj([intent |-> Lit("shopping"), confidence |-> Decimal(9)]),
     Obj([intent |-> Lit("shopping"), confidence |-> Decimal(3)]),
     Obj([intent |-> Lit("general_shopping"), confidence |-> Decimal(9)]),
     Obj([intent |-> Lit("unclear"), confidence |-> Decimal(3),
          clarification |-> Lit("Are you looking for product help or just saying hello?")]),
     Obj([intent |-> Lit("unclear"), confidence |-> Decimal(3)]),
     Obj([intent |-> Lit("support"), confidence |-> Decimal(9)]),
     Obj([intent |-> Lit("greeting"), clarification |-> Lit("Hello?")]),
     Obj([confidence |-> Decimal(9)])}

ClassifierOutcomes ==
    {Reject(Lit("Connection error.")),
     Completion(Undefined),
     Completion(EmptyString),
     Completion(Lit("I think this is a greeting")),
     Completion(JsonText("null", Null))}
    \cup {Completion(JsonText("{...}", o)) : o \in ClassifierObjects}

ExtractorOutcomes ==
    {Reject(Lit("Connection error.")),
     Completion(Null),
     Completion(Str(<<" ", "\n">>)),
     Completion(Lit("wireless headphones")),
     Completion(JsonText("null", Null)),
     Completion(JsonText("{...}", Obj([category |-> Lit("electronics")]))),
     Completion(JsonText("{...}", Obj([searchQuery |-> Num(42)]))),
     Completion(JsonText("{...}", Obj([searchQuery |-> Str(<<"wireless", " ", "headphones">>),
                                      category |-> Lit("electronics")])))}

ProductFull ==
    Obj([product_title |-> Str(<<"Sony", " ", "WH-1000">>),
         product_price |-> Lit("$49.99"),
         product_photo |-> Lit("https://m.media-amazon.com/images/1.jpg"),
         product_url |-> Lit("https://www.amazon.com/dp/B001"),
         delivery |-> Lit("FREE delivery"),
         product_star_rating |-> Lit("4.5"),
         product_num_ratings |-> Num(1200)])

ProductBare == Obj([product_title |-> Str(<<"USB", " ", "cable">>)])

RawProducts == {ProductFull, ProductBare}

SearchBodies ==
    {Lit("<html>Bad gateway</html>"),
     JsonText("null", Null),
     JsonText("{...}", Obj([status |-> Lit("ERROR")])),
     JsonText("{...}", Obj([data |-> Obj([products |-> Null])]))}
    \cup {JsonText("{...}", Obj([data |-> Obj([products |-> Arr(list)])])) :
            list \in SeqsUpTo(RawProducts, MaxProducts)}

SearchOutcomes ==
    {Reject(Lit("fetch failed")),
     HttpResponse(FALSE, 429, Lit("Too many requests"))}
    \cup {HttpResponse(TRUE, 200, body) : body \in SearchBodies}

AdvisorOutcomes ==
    {Reject(Lit("503 Service Unavailable")),
     Generated(EmptyString),
     Generated(Lit("Compare prices before you buy.")),
     Generated(JsonText("null", Null)),
     Generated(JsonText("{...}", Obj([advice |-> Lit("Compare prices.")]))),
     Generated(JsonText("{...}", Obj([message |-> Lit("Compare prices before you buy.")]))),
     Generated([t |-> "string", s |-> <<"Sure! ", "{...}">>,
                braced |-> JsonText("{...}", Obj([message |-> Lit("Look for bundles.")]))]),
     Generated([t |-> "string", s |-> <<"Use {curly} braces">>,
                braced |-> Lit("{curly}")])}

\* 32-bit values crypto.getRandomValues may draw
Draws ==
    {[hi |-> 0, lo |-> 0], [hi |-> 0, lo |-> 1], [hi |-> 0, lo |-> 5],
     [hi |-> 65535, lo |-> 65535]}

Environments == {[RAPIDAPI_KEY |-> TRUE], [RAPIDAPI_KEY |-> FALSE]}

\* the pure helpers are not exercised in the request specification
NoCall == [fn |-> "none"]

-----------------------------------------------------------------------------
(* The request specification                                               *)

\* the requests in flight
Requests == {1}

Init ==
    /\ req = [r \in Requests |-> IdleRequest]
    /\ env \in Environments
    /\ fx = NoCall

GetMessageFromAgent_Call(r) ==
    /\ req[r].pc = "idle"
    /\ \E transcript \in Transcripts, messageHistory \in Histories :
          req' = [req EXCEPT ![r] = getMessageFromAgentCall(transcript, messageHistory)]
    /\ UNCHANGED <<env, fx>>

GetMessageFromAgent_Classified(r) ==
    /\ req[r].fn = "getMessageFromAgent"
    /\ req[r].pc = "determineIntent"
    /\ \E completion \in ClassifierOutcomes, drawn \in Draws :
          req' = [req EXCEPT ![r] = getMessageFromAgentClassified(Receive(req[r], completion), completion, drawn)]
    /\ UNCHANGED <<env, fx>>

GetMessageFromAgent_Extracted(r) ==
    /\ req[r].fn = "getMessageFromAgent"
    /\ req[r].pc = "handleShoppingIntent"
    /\ \E completion \in ExtractorOutcomes :
          req' = [req EXCEPT ![r] = getMessageFromAgentExtracted(Receive(req[r], completion), completion, env)]
    /\ UNCHANGED <<env, fx>>

GetMessageFromAgent_Searched(r) ==
    /\ req[r].fn = "getMessageFromAgent"
    /\ req[r].pc = "searchProducts"
    /\ \E response \in SearchOutcomes :
          req' = [req EXCEPT ![r] = getMessageFromAgentSearched(Receive(req[r], response), response)]
    /\ UNCHANGED <<env, fx>>

GetMessageFromAgent_Advised(r) ==
    /\ req[r].fn = "getMessageFromAgent"
    /\ req[r].pc = "handleShoppingQuery"
    /\ \E generated \in AdvisorOutcomes :
          req' = [req EXCEPT ![r] = getMessageFromAgentAdvised(Receive(req[r], generated), generated)]
    /\ UNCHANGED <<env, fx>>

GetShoppingRecommendations_Call(r) ==
    /\ req[r].pc = "idle"
    /\ \E transcript \in Transcripts, messageHistory \in Histories :
          req' = [req EXCEPT ![r] = getShoppingRecommendationsCall(transcript, messageHistory)]
    /\ UNCHANGED <<env, fx>>

GetShoppingRecommendations_Extracted(r) ==
    /\ req[r].fn = "getShoppingRecommendations"
    /\ req[r].pc = "handleShoppingIntent"
    /\ \E completion \in ExtractorOutcomes :
          req' = [req EXCEPT ![r] = getShoppingRecommendationsExtracted(Receive(req[r], completion), completion, env)]
    /\ UNCHANGED <<env, fx>>

GetShoppingRecommendations_Searched(r) ==
    /\ req[r].fn = "getShoppingRecommendations"
    /\ req[r].pc = "searchProducts"
    /\ \E response \in SearchOutcomes :
          req' = [req EXCEPT ![r] = getShoppingRecommendationsSearched(Receive(req[r], response), response)]
    /\ UNCHANGED <<env, fx>>

Next ==
    \/ \E r \in Requests : GetMessageFromAgent_Call(r)
    \/ \E r \in Requests : GetMessageFromAgent_Classified(r)
    \/ \E r \in Requests : GetMessageFromAgent_Extracted(r)
    \/ \E r \in Requests : GetMessageFromAgent_Searched(r)
    \/ \E r \in Requests : GetMessageFromAgent_Advised(r)
    \/ \E r \in Requests : GetShoppingRecommendations_Call(r)
    \/ \E r \in Requests : GetShoppingRecommendations_Extracted(r)
    \/ \E r \in Requests : GetShoppingRecommendations_Searched(r)

Spec == Init /\ [][Next]_vars

\* every capability call eventually returns or fails: the continuation of a
\* request suspended at an await eventually runs
FairSpec ==
    /\ Spec
    /\ \A r \in Requests :
        /\ WF_vars(GetMessageFromAgent_Classified(r))
        /\ WF_vars(GetMessageFromAgent_Extracted(r))
        /\ WF_vars(GetMessageFromAgent_Searched(r))
        /\ WF_vars(GetMessageFromAgent_Advised(r))
        /\ WF_vars(GetShoppingRecommendations_Extracted(r))
        /\ WF_vars(GetShoppingRecommendations_Searched(r))

-----------------------------------------------------------------------------
(* The specification of the product normalizers as pure functions          *)

\* longest product list handed to a normalizer
MaxRankInput == 6

\* values that are no array
NonArrays ==
    {Undefined, Null, EmptyString, Lit("products"), Num(0), Num(3), Bool(FALSE),
     Obj([products |-> Arr(<<ProductFull>>)])}

\* elements of a product list: records, and null (which is no record)
RankElements == {ProductFull, ProductBare, Null}

RankInputs == NonArrays \cup {Arr(list) : list \in SeqsUpTo(RankElements, MaxRankInput)}

InitRank ==
    /\ req = [r \in Requests |-> IdleRequest]
    /\ env = [RAPIDAPI_KEY |-> TRUE]
    /\ fx = NoCall

Call_rankProducts ==
    /\ fx = NoCall
    /\ \E products \in RankInputs :
          fx' = [fn |-> "rankProducts", input |-> products,
                 out |-> rankProducts(products, Lit("headphones"))]
    /\ UNCHANGED <<req, env>>

Call_rankProductRecommendations ==
    /\ fx = NoCall
    /\ \E products \in RankInputs :
          fx' = [fn |-> "rankProductRecommendations", input |-> products,
                 out |-> rankProductRecommendations(products, Lit("headphones"))]
    /\ UNCHANGED <<req, env>>

RankSpec == InitRank /\ [][Call_rankProducts \/ Call_rankProductRecommendations]_vars

-----------------------------------------------------------------------------
(* The specification of the normalization of one raw product record        *)

\* the properties of a raw product the normalizers read (lines 221-241)
ProductFieldNames ==
    {"product_title", "product_price", "product_photo", "product_url",
     "delivery", "product_star_rating", "product_num_ratings"}

\* raw records in which each of those properties is absent, null, falsy
\* ("" or 0) or filled as in ProductFull
ProductRecords ==
    {Obj([k \in {name \in ProductFieldNames : shape[name] # "absent"} |->
            CASE shape[k] = "null" -> Null
              [] shape[k] = "falsy" ->
                    IF k = "product_num_ratings" THEN Num(0) ELSE EmptyString
              [] OTHER -> ProductFull.f[k]]) :
        shape \in [ProductFieldNames -> {"absent", "null", "falsy", "filled"}]}

Call_rankProductsOnRecord ==
    /\ fx = NoCall
    /\ \E product \in ProductRecords :
          fx' = [fn |-> "rankProducts", input |-> Arr(<<product>>),
                 out |-> rankProducts(Arr(<<product>>), Lit("headphones"))]
    /\ UNCHANGED <<req, env>>

Call_rankProductRecommendationsOnRecord ==
    /\ fx = NoCall
    /\ \E product \in ProductRecords :
          fx' = [fn |-> "rankProductRecommendations", input |-> Arr(<<product>>),
                 out |-> rankProductRecommendations(Arr(<<product>>), Lit("headphones"))]
    /\ UNCHANGED <<req, env>>

ProductSpec == InitRank /\ [][Call_rankProductsOnRecord \/ Call_rankProductRecommendationsOnRecord]_vars

-----------------------------------------------------------------------------
(* The specification of the normalization of a record whose properties     *)
(* have unexpected shapes                                                  *)

\* both normalizers on one raw record in which each property is a text, a
\* number, an object or an array
Call_rankOnShapedRecord ==
    /\ fx = NoCall
    /\ \E shape \in [ProductFieldNames ->
                        {Lit("4.5"), Num(42), Obj([text |-> Lit("Sony")]),
                         Arr(<<Lit("Sony"), Lit("Bose")>>)}],
          fn \in {"rankProducts", "rankProductRecommendations"} :
          LET product == Obj([shape EXCEPT !.product_num_ratings = Num(1200)])
          IN  fx' = [fn |-> fn, input |-> Arr(<<product>>),
                     out |-> IF fn = "rankProducts"
                             THEN rankProducts(Arr(<<product>>), Lit("headphones"))
                             ELSE rankProductRecommendations(Arr(<<product>>),
                                                             Lit("headphones"))]
    /\ UNCHANGED <<req, env>>

ShapeSpec == InitRank /\ [][Call_rankOnShapedRecord]_vars

-----------------------------------------------------------------------------
(* The specification of sanitizeMessageHistory as a pure function          *)

\* longest message history handed to the sanitizer
MaxHistory == 2

\* an object that refers to itself, which JSON.stringify cannot serialise
CyclicObject == [t |-> "object", f |-> [text |-> Lit("self")], cyclic |-> TRUE]

\* elements of a message history: turns whose content is a string, an
\* object, an array, a number, a boolean, null, undefined, absent or
\* circular, turns without a role, and elements that are no objects
HistoryElements ==
    {OkTurn,
     Obj([content |-> Lit("Find me headphones")]),
     Obj([role |-> EmptyString, content |-> EmptyString]),
     Obj([role |-> Lit("user"), content |-> Obj([text |-> Lit("Hi")])]),
     Obj([role |-> Lit("user"), content |-> Arr(<<Lit("Hi"), Num(1)>>)]),
     Obj([role |-> Lit("user"), content |-> Num(42)]),
     Obj([role |-> Lit("user"), content |-> Bool(FALSE)]),
     Obj([role |-> Lit("user"), content |-> Null]),
     Obj([role |-> Lit("user"), content |-> Undefined]),
     Obj([role |-> Lit("assistant")]),
     Obj([role |-> Lit("user"), content |-> CyclicObject]),
     Null, Undefined, Lit("Hi"), Num(7)}

Call_sanitizeMessageHistory ==
    /\ fx = NoCall
    /\ \E messageHistory \in
            NonArrays \cup {Arr(list) : list \in SeqsUpTo(HistoryElements, MaxHistory)} :
          fx' = [fn |-> "sanitizeMessageHistory", input |-> messageHistory,
                 out |-> sanitizeMessageHistory(messageHistory)]
    /\ UNCHANGED <<req, env>>

SanitizeSpec == InitRank /\ [][Call_sanitizeMessageHistory]_vars

-----------------------------------------------------------------------------
(* The specification of single calls of handleShoppingIntent and           *)
(* handleShoppingQuery: the call, the capability outcome, the result       *)

\* transcripts with and without the keywords of the fallbacks, in lower and
\* upper case, and with keywords of several groups
HandlerTranscripts ==
    {Str(<<"h", "i">>),
     Str(<<"P", "a", "r", "t", "y">>),
     Str(<<"m", "y", " ", "b", "i", "r", "t", "h", "d", "a", "y">>),
     Str(<<"g", "i", "f", "t">>),
     Str(<<"P", "R", "E", "S", "E", "N", "T">>),
     Str(<<"d", "e", "a", "l">>),
     Str(<<"S", "a", "l", "e">>),
     Str(<<"c", "h", "o", "o", "s", "e">>),
     Str(<<"D", "E", "C", "I", "D", "E">>),
     Str(<<"s", "a", "l", "e", " ", "g", "i", "f", "t">>),
     Str(<<"d", "e", "c", "i", "d", "e", " ", "d", "e", "a", "l">>),
     Str(<<"c", "h", "o", "o", "s", "e", " ", "a", " ", "p", "r", "e", "s", "e", "n", "t">>),
     EmptyString, Undefined, Num(42)}

Call_handleShoppingIntent ==
    /\ fx = NoCall
    /\ \E transcript \in HandlerTranscripts, messageHistory \in Histories,
          completion \in ExtractorOutcomes :
          LET entered == handleShoppingIntentEnter(transcript, messageHistory)
          IN  fx' = [fn |-> "handleShoppingIntent",
                     transcript |-> transcript, messageHistory |-> messageHistory,
                     received |-> IF entered.threw THEN <<>> ELSE <<completion>>,
                     out |-> IF entered.threw THEN entered
                             ELSE handleShoppingIntentResume(transcript, completion)]
    /\ UNCHANGED <<req, env>>

Call_handleShoppingQuery ==
    /\ fx = NoCall
    /\ \E transcript \in HandlerTranscripts, messageHistory \in Histories,
          generated \in AdvisorOutcomes :
          LET entered == handleShoppingQueryEnter(transcript, messageHistory)
          IN  fx' = [fn |-> "handleShoppingQuery",
                     transcript |-> transcript, messageHistory |-> messageHistory,
                     received |-> IF entered.threw THEN <<>> ELSE <<generated>>,
                     out |-> IF entered.threw THEN entered
                             ELSE handleShoppingQueryResume(transcript, generated)]
    /\ UNCHANGED <<req, env>>

HandlerSpec == InitRank /\ [][Call_handleShoppingIntent \/ Call_handleShoppingQuery]_vars

-----------------------------------------------------------------------------
(* The specification of single calls of the support analyzers              *)

\* a complete analysis of a problem description
TextAnalysis ==
    Obj([response |-> Lit("Restart the router."),
         requiresHuman |-> Bool(FALSE),
         nextSteps |-> Arr(<<Lit("Unplug it for ten seconds")>>)])

\* a complete analysis of an image
ImageAnalysis ==
    Obj([description |-> Lit("A phone with a cracked screen"),
         issues |-> Arr(<<Lit("Cracked glass")>>),
         suggestions |-> Arr(<<Lit("Replace the screen")>>)])

\* outcomes of googleModel.generateContent in processSupportTextWithGemini
TextAnalyzerOutcomes ==
    {Reject(Lit("503 Service Unavailable")),
     Generated(EmptyString),
     Generated(Lit("Try restarting the router.")),
     Generated(JsonText("null", Null)),
     Generated(JsonText("[]", Arr(<<>>))),
     Generated(JsonText("{...}", Obj([answer |-> Lit("Restart the router.")]))),
     Generated(JsonText("{...}", Obj([response |-> EmptyString,
                                      requiresHuman |-> Bool(TRUE)]))),
     Generated(JsonText("{...}", TextAnalysis)),
     Generated(JsonText("{...}", Obj(TextAnalysis.f @@ [success |-> Bool(FALSE)]))),
     Generated([t |-> "string", s |-> <<"Here you go: ", "{...}">>,
                braced |-> JsonText("{...}", TextAnalysis)]),
     Generated([t |-> "string", s |-> <<"Here you go: ", "{...}">>,
                braced |-> JsonText("{...}", Obj([answer |-> Lit("Restart.")]))]),
     Generated([t |-> "string", s |-> <<"Check the {power} LED">>,
                braced |-> Lit("{power}")])}

\* outcomes of groq.chat.completions.create in processSupportImageWithGroq
ImageAnalyzerOutcomes ==
    {Reject(Lit("Connection error.")),
     Completion(Undefined),
     Completion(Null),
     Completion(EmptyString),
     Completion(Lit("The image shows a cracked screen.")),
     Completion([t |-> "string", s |-> <<"Here is the analysis: ", "{...}">>,
                 braced |-> JsonText("{...}", ImageAnalysis)]),
     Completion(JsonText("null", Null)),
     Completion(JsonText("[]", Arr(<<>>))),
     Completion(JsonText("{...}", Obj([description |-> Lit("A cracked screen")]))),
     Completion(JsonText("{...}", Obj([description |-> EmptyString,
                                       issues |-> Arr(<<>>),
                                       suggestions |-> Arr(<<>>)]))),
     Completion(JsonText("{...}", Obj([description |-> Lit("A cracked screen"),
                                       issues |-> Lit("Cracked glass"),
                                       suggestions |-> Arr(<<>>)]))),
     Completion(JsonText("{...}", ImageAnalysis)),
     Completion(JsonText("{...}", Obj(ImageAnalysis.f @@ [success |-> Bool(FALSE)])))}

Call_processSupportTextWithGemini ==
    /\ fx = NoCall
    /\ \E problemDescription \in
            {Lit("My router keeps dropping the connection"), Lit("The screen is cracked"),
             EmptyString, Undefined, Num(42)},
          messageHistory \in Histories,
          generated \in TextAnalyzerOutcomes :
          LET entered == processSupportTextWithGeminiEnter(problemDescription, messageHistory)
          IN  fx' = [fn |-> "processSupportTextWithGemini",
                     problemDescription |-> problemDescription,
                     messageHistory |-> messageHistory,
                     received |-> IF entered.threw THEN <<>> ELSE <<generated>>,
                     out |-> IF entered.threw THEN entered
                             ELSE processSupportTextWithGeminiResume(generated)]
    /\ UNCHANGED <<req, env>>

Call_processSupportImageWithGroq ==
    /\ fx = NoCall
    /\ \E imageBase64 \in
            {Lit("iVBORw0KGgoAAAANSUhEUg=="), Lit("/9j/4AAQSkZJRgABAQ=="),
             EmptyString, Undefined, Num(42)},
          problemContext \in {Undefined, EmptyString, Lit("It fell off the table")},
          completion \in ImageAnalyzerOutcomes :
          LET entered == processSupportImageWithGroqEnter(imageBase64, problemContext)
          IN  fx' = [fn |-> "processSupportImageWithGroq",
                     imageBase64 |-> imageBase64,
                     problemContext |-> problemContext,
                     received |-> IF entered.threw THEN <<>> ELSE <<completion>>,
                     out |-> IF entered.threw THEN entered
                             ELSE processSupportImageWithGroqResume(completion)]
    /\ UNCHANGED <<req, env>>

SupportSpec == InitRank /\ [][Call_processSupportTextWithGemini \/ Call_processSupportImageWithGroq]_vars

-----------------------------------------------------------------------------
(* The specification of the random index and of the greeting branch        *)

\* longest phrase list an index is drawn for
MaxListLength == 8

\* 16-bit halves of the values crypto.getRandomValues may draw
HalfSamples == {0, 1, 2, 3, 4, 5, 6, 7, 255, 256, 32767, 32768, 65534, 65535}

Call_getRandomIndex ==
    /\ fx = NoCall
    /\ \E max \in 1..MaxListLength, drawn \in [hi : HalfSamples, lo : HalfSamples] :
          fx' = [fn |-> "getRandomIndex", max |-> max, drawn |-> drawn,
                 out |-> getRandomIndex(max, drawn)]
    /\ UNCHANGED <<req, env>>

\* getMessageFromAgent("hi") up to the result, the classifier answering greeting
Call_greetingBranch ==
    /\ fx = NoCall
    /\ \E drawn \in [hi : HalfSamples, lo : HalfSamples] :
          LET completion == Completion(JsonText("{...}",
                                Obj([intent |-> Lit("greeting"), confidence |-> Decimal(9)])))
              called == getMessageFromAgentCall(Str(<<"h", "i">>), Undefined)
          IN  fx' = [fn |-> "getMessageFromAgent", drawn |-> drawn,
                     out |-> getMessageFromAgentClassified(Receive(called, completion),
                                                           completion, drawn)]
    /\ UNCHANGED <<req, env>>

IndexSpec == InitRank /\ [][Call_getRandomIndex \/ Call_greetingBranch]_vars

-----------------------------------------------------------------------------
(* The specification of POST /support requests                             *)

PostSupport_Call(r) ==
    /\ req[r].pc = "idle"
    /\ \E body \in
            {Undefined, Obj([messageHistory |-> Arr(<<OkTurn>>)]),
             Obj([problemDescription |-> Lit("The screen is cracked")]),
             Obj([imageBase64 |-> Lit("iVBORw0KGgoAAAANSUhEUg==")]),
             Obj([problemDescription |-> Lit("The screen is cracked"),
                  imageBase64 |-> Lit("iVBORw0KGgoAAAANSUhEUg=="),
                  messageHistory |-> Arr(<<OkTurn>>)]),
             Obj([problemDescription |-> Num(42), imageBase64 |-> Num(42)]),
             Obj([problemDescription |-> Lit("The screen is cracked"),
                  messageHistory |-> Arr(<<OkTurn, Null>>)]),
             Obj([problemDescription |-> Lit("The screen is cracked"),
                  messageHistory |-> Null])} :
          req' = [req EXCEPT ![r] = postSupportCall(body)]
    /\ UNCHANGED <<env, fx>>

PostSupport_TextAnalyzed(r) ==
    /\ req[r].fn = "POST /support"
    /\ req[r].pc \in {"text1", "text2"}
    /\ \E generated \in TextAnalyzerOutcomes :
          req' = [req EXCEPT ![r] = postSupportTextAnalyzed(Receive(req[r], generated), generated)]
    /\ UNCHANGED <<env, fx>>

PostSupport_ImageAnalyzed(r) ==
    /\ req[r].fn = "POST /support"
    /\ req[r].pc \in {"image1", "image2"}
    /\ \E completion \in ImageAnalyzerOutcomes :
          req' = [req EXCEPT ![r] = postSupportImageAnalyzed(Receive(req[r], completion), completion)]
    /\ UNCHANGED <<env, fx>>

SupportRouteSpec ==
    InitRank /\ [][\/ \E r \in Requests : PostSupport_Call(r)
                   \/ \E r \in Requests : PostSupport_TextAnalyzed(r)
                   \/ \E r \in Requests : PostSupport_ImageAnalyzed(r)]_vars

-----------------------------------------------------------------------------
(* The specification of POST /chat requests                                *)

\* lines 37-76: the request arrives; the checks of the body, then the call
\* of getMessageFromAgent
PostChat_Call(r) ==
    /\ req[r].pc = "idle"
    /\ \E body \in {Undefined} \cup
                   {Obj([transcript |-> transcript, messageHistory |-> messageHistory]) :
                        transcript \in Transcripts, messageHistory \in Histories} :
          LET transcript == Get(body, "transcript")
              messageHistory == DefaultHistory(Get(body, "messageHistory"))
              refused(error, message) ==
                  [IdleRequest EXCEPT !.pc = "done", !.fn = "POST /chat"]
                  @@ [route |-> "POST /chat", body |-> body,
                      sent |-> <<[status |-> 400,
                                  body |-> Obj([error |-> Lit(error),
                                                message |-> Lit(message)])]>>]
          IN  req' = [req EXCEPT ![r] =
                  IF ~Truthy(body)
                  THEN refused("Missing request body",
                               "Please provide transcript and messageHistory in request body")
                  ELSE IF ~Truthy(transcript)
                  THEN refused("Missing transcript",
                               "Please provide a transcript parameter")
                  ELSE IF ~IsString(transcript)
                  THEN refused("Invalid transcript format", "Transcript must be a string")
                  ELSE IF ~IsArray(messageHistory)
                  THEN refused("Invalid messageHistory format",
                               "MessageHistory must be an array")
                  ELSE getMessageFromAgentCall(transcript, messageHistory)
                       @@ [route |-> "POST /chat", body |-> body, sent |-> <<>>]]
    /\ UNCHANGED <<env, fx>>

PostChat_Respond(r) ==
    /\ req[r].fn = "getMessageFromAgent"
    /\ req[r].pc = "done"
    /\ req[r].sent = <<>>
    /\ req' = [req EXCEPT ![r] = postChatRespond(req[r])]
    /\ UNCHANGED <<env, fx>>

\* every capability call eventually settles, and a settled promise resumes
\* the handler that awaits it
ChatRouteSpec ==
    /\ Init
    /\ [][\/ \E r \in Requests : PostChat_Call(r)
          \/ \E r \in Requests : GetMessageFromAgent_Classified(r)
          \/ \E r \in Requests : GetMessageFromAgent_Extracted(r)
          \/ \E r \in Requests : GetMessageFromAgent_Searched(r)
          \/ \E r \in Requests : GetMessageFromAgent_Advised(r)
          \/ \E r \in Requests : PostChat_Respond(r)]_vars
    /\ \A r \in Requests :
        /\ WF_vars(GetMessageFromAgent_Classified(r))
        /\ WF_vars(GetMessageFromAgent_Extracted(r))
        /\ WF_vars(GetMessageFromAgent_Searched(r))
        /\ WF_vars(GetMessageFromAgent_Advised(r))
        /\ WF_vars(PostChat_Respond(r))

-----------------------------------------------------------------------------
(* The specification of two getMessageFromAgent requests that run          *)
(* interleaved at their capability calls                                   *)

\* the inputs and capability outcomes of the interleaved requests
PairSampled(r) ==
    /\ req[r].transcript \in {Str(<<"h", "i">>), Str(<<"P", "a", "r", "t", "y">>)}
    /\ req[r].messageHistory \in {Arr(<<>>), Arr(<<OkTurn>>)}
    /\ \A i \in 1..Len(req[r].received) :
          req[r].received[i] \in
            {Reject(Lit("Connection error.")),
             Completion(JsonText("{...}", Obj([intent |-> Lit("greeting"),
                                               confidence |-> Decimal(9)]))),
             Completion(JsonText("{...}", Obj([intent |-> Lit("shopping"),
                                               confidence |-> Decimal(9)]))),
             Completion(JsonText("{...}", Obj([intent |-> Lit("general_shopping"),
                                               confidence |-> Decimal(9)]))),
             Completion(JsonText("{...}", Obj([intent |-> Lit("unclear"),
                                               confidence |-> Decimal(3)]))),
             Completion(Lit("wireless headphones")),
             Completion(JsonText("{...}",
                Obj([searchQuery |-> Str(<<"wireless", " ", "headphones">>),
                     category |-> Lit("electronics")]))),
             Reject(Lit("fetch failed")),
             HttpResponse(TRUE, 200,
                JsonText("{...}", Obj([data |-> Obj([products |-> Arr(<<ProductFull>>)])]))),
             Reject(Lit("503 Service Unavailable")),
             Generated(JsonText("{...}",
                Obj([message |-> Lit("Compare prices before you buy.")])))}

InitPair ==
    /\ req = [r \in {1, 2} |-> IdleRequest]
    /\ env = [RAPIDAPI_KEY |-> TRUE]
    /\ fx = NoCall

PairSpec ==
    /\ InitPair
    /\ [][\/ \E r \in {1, 2} : GetMessageFromAgent_Call(r) /\ PairSampled(r)'
          \/ \E r \in {1, 2} : GetMessageFromAgent_Classified(r) /\ PairSampled(r)'
          \/ \E r \in {1, 2} : GetMessageFromAgent_Extracted(r) /\ PairSampled(r)'
          \/ \E r \in {1, 2} : GetMessageFromAgent_Searched(r) /\ PairSampled(r)'
          \/ \E r \in {1, 2} : GetMessageFromAgent_Advised(r) /\ PairSampled(r)']_vars

-----------------------------------------------------------------------------
(* Properties                                                              *)

Has(v, k) == v.t = "object" /\ k \in DOMAIN v.f
Range(seq) == {seq[i] : i \in 1..Len(seq)}
Chat(r) == req[r].fn = "getMessageFromAgent"
Shop(r) == req[r].fn = "getShoppingRecommendations"
Finished(r) == req[r].pc = "done"
ErrorIs(r, text) == Has(req[r].result, "error") /\ req[r].result.f.error = Lit(text)
IntentIs(r, text) ==
    /\ req[r].intentResult.t = "object"
    /\ StrictEq(Get(req[r].intentResult, "intent"), Lit(text))

\* C1: for a non-empty string transcript, whatever the capabilities answer,
\* getMessageFromAgent resolves with an envelope object whose message is a
\* non-empty string; it never resolves with undefined.
C1_EnvelopeWithMessage ==
    \A r \in Requests :
        (Chat(r) /\ Finished(r) /\ ~InvalidTranscript(req[r].transcript))
        => /\ req[r].settled = "fulfilled"
           /\ Has(req[r].result, "message")
           /\ IsString(req[r].result.f.message)
           /\ Truthy(req[r].result.f.message)

\* the classification call failed: transport exception, empty response,
\* unparseable JSON, or an intent outside the four recognized literals
ClassificationFails(completion) ==
    \/ completion.kind = "reject"
    \/ ~Truthy(completion.content)
    \/ "json" \notin DOMAIN completion.content
    \/ completion.content.json.t # "object"
    \/ \A literal \in {"greeting", "shopping", "general_shopping", "unclear"} :
          ~StrictEq(Get(completion.content.json, "intent"), Lit(literal))

\* C2: when the classification call fails, the intent result is the
\* fallback with the recognized literal general_shopping and a confidence
\* below 0.5, and the request runs the general-shopping branch.
C2_FallbackIsGeneralShopping ==
    \A r \in Requests :
        (Chat(r) /\ Len(req[r].received) >= 1 /\ ClassificationFails(req[r].received[1]))
        => /\ IntentIs(r, "general_shopping")
           /\ Get(req[r].intentResult, "confidence").t = "number"
           /\ 2 * Get(req[r].intentResult, "confidence").n
                < Get(req[r].intentResult, "confidence").scale
           /\ "handleShoppingQuery" \in Range(req[r].stages)

\* C3: when the classifier answers unclear, the envelope has intent unclear,
\* requiresClarification true, the classifier's clarification question (or
\* the generic one) and a message of the clarification list, and no error.
C3_UnclearAsksClarification ==
    \A r \in Requests :
        (Chat(r) /\ Finished(r) /\ IntentIs(r, "unclear"))
        => /\ Has(req[r].result, "intent")
           /\ req[r].result.f.intent = Lit("unclear")
           /\ Has(req[r].result, "requiresClarification")
           /\ req[r].result.f.requiresClarification = Bool(TRUE)
           /\ req[r].result.f.clarification
                = JsOr(Get(req[r].intentResult, "clarification"),
                       Lit("Could you clarify your request?"))
           /\ req[r].result.f.message \in Range(clarifications)
           /\ ~Has(req[r].result, "error")

\* C4: when the search succeeds with zero products, either entry point ends
\* in the "No suitable products found" envelope (be more specific, no
\* recommendations), not in the fetch-failure or ranking-failure envelope.
C4_ZeroProductsEnvelope ==
    \A r \in Requests :
        (Finished(r) /\ req[r].productResults = Arr(<<>>))
        => /\ ErrorIs(r, "No suitable products found")
           /\ req[r].result.f.message
                = Lit("I couldn't find any suitable products for your request. Try being more specific.")
           /\ ~Has(req[r].result, "recommendations")

\* C5: no exception leaves getMessageFromAgent or getShoppingRecommendations:
\* the promise always resolves, and the exception no stage handler catches
\* (the ReferenceError of the unclear branch) becomes the "System error"
\* envelope with the exception's message under details.
C5_NoExceptionEscapes ==
    \A r \in Requests :
        /\ Finished(r) => req[r].settled = "fulfilled"
        /\ (Chat(r) /\ Finished(r) /\ IntentIs(r, "unclear")
                /\ "getRandomIndex" \notin FunctionsJsBindings)
           => /\ ErrorIs(r, "System error")
              /\ req[r].result.f.message
                   = Lit("Sorry, something went wrong. Please try again.")
              /\ req[r].result.f.details = Lit("getRandomIndex is not defined")

C5_Witness ==
    \E r \in Requests :
        /\ Chat(r) /\ Finished(r) /\ IntentIs(r, "unclear")
        /\ req[r].settled = "fulfilled"
        /\ ErrorIs(r, "System error")

\* C6: for an empty or non-string transcript getMessageFromAgent returns the
\* "Invalid input" envelope and no capability is invoked in that request.
C6_InvalidTranscriptNoCalls ==
    \A r \in Requests :
        (Chat(r) /\ InvalidTranscript(req[r].transcript))
        => /\ Finished(r)
           /\ ErrorIs(r, "Invalid input")
           /\ req[r].calls = <<>>
           /\ req[r].received = <<>>

C6_Witness ==
    \E r \in Requests :
        /\ Chat(r) /\ Finished(r)
        /\ req[r].transcript = Num(42)
        /\ ErrorIs(r, "Invalid input")

Called(r, capability) == \E i \in 1..Len(req[r].calls) : req[r].calls[i].capability = capability

\* the outcome the request received from its call of a capability
Outcome(r, capability) ==
    req[r].received[CHOOSE i \in 1..Len(req[r].calls) :
                        req[r].calls[i].capability = capability]

Settled(r, capability) ==
    \E i \in 1..Len(req[r].received) : req[r].calls[i].capability = capability

\* C7: in getMessageFromAgent a stage failure ends the request in the
\* envelope of that stage and no later stage runs: an exception from
\* classification, "Failed to understand request"; an extraction failure,
\* "Failed to understand product request" and no search call; a search
\* failure, "Failed to fetch products" and no ranking; an exception from the
\* advisor, "Failed to understand general shopping request".
C7_StageFailureEnvelope ==
    \A r \in Requests :
        /\ (Chat(r) /\ ~InvalidTranscript(req[r].transcript)
                /\ sanitizeMessageHistory(req[r].messageHistory).threw)
           => /\ Finished(r)
              /\ ErrorIs(r, "Failed to understand request")
              /\ req[r].calls = <<>>
              /\ req[r].stages = <<"determineIntent">>
        /\ (Chat(r) /\ Settled(r, "extract")
                /\ handleShoppingIntentResume(req[r].transcript, Outcome(r, "extract")).threw)
           => /\ Finished(r)
              /\ ErrorIs(r, "Failed to understand product request")
              /\ ~Called(r, "search")
              /\ "searchProducts" \notin Range(req[r].stages)
        /\ (Chat(r) /\ "searchProducts" \in Range(req[r].stages)
                /\ \/ ~Called(r, "search")
                   \/ /\ Settled(r, "search")
                      /\ searchProductsResume(Outcome(r, "search")).threw)
           => /\ Finished(r)
              /\ ErrorIs(r, "Failed to fetch products")
              /\ "rankProducts" \notin Range(req[r].stages)
        /\ (Chat(r) /\ "handleShoppingQuery" \in Range(req[r].stages)
                /\ handleShoppingQueryEnter(req[r].transcript, req[r].messageHistory).threw)
           => /\ Finished(r)
              /\ ErrorIs(r, "Failed to understand general shopping request")

C7_Witness ==
    \E r \in Requests :
        /\ Chat(r) /\ Finished(r)
        /\ Settled(r, "extract")
        /\ Outcome(r, "extract") = Completion(Lit("wireless headphones"))
        /\ ErrorIs(r, "Failed to understand product request")

\* C8: when the classifier answers shopping, extraction yields the phrase q
\* and the search returns N >= 1 raw products, the envelope has intent
\* shopping, success true, query q, min(3, N) recommendations ranked
\* 1..min(3, N) in the order the search returned them, and a message naming
\* q and that count.
C8_ShoppingRecommendations ==
    \A r \in Requests :
        (Chat(r) /\ Finished(r) /\ IntentIs(r, "shopping")
            /\ req[r].searchResult.t = "object"
            /\ IsArray(req[r].productResults)
            /\ Len(req[r].productResults.items) >= 1)
        => LET q == Get(req[r].searchResult, "searchQuery")
               raw == req[r].productResults.items
               count == IF Len(raw) < 3 THEN Len(raw) ELSE 3
               e == req[r].result
           IN  /\ Has(e, "intent") /\ e.f.intent = Lit("shopping")
               /\ Has(e, "success") /\ e.f.success = Bool(TRUE)
               /\ ~Has(e, "error")
               /\ IsString(q) /\ Truthy(q)
               /\ e.f.query = q
               /\ IsArray(e.f.recommendations)
               /\ Len(e.f.recommendations.items) = count
               /\ \A i \in 1..count :
                     /\ e.f.recommendations.items[i].f.rank = Num(i)
                     /\ e.f.recommendations.items[i].f.title
                          = Get(raw[i], "product_title")
               /\ Includes(e.f.message.s, q.s)
               /\ Includes(e.f.message.s, <<ToString(count)>>)

C8_Witness ==
    \E r \in Requests :
        /\ Chat(r) /\ Finished(r) /\ IntentIs(r, "shopping")
        /\ IsArray(req[r].productResults)
        /\ Len(req[r].productResults.items) = 5
        /\ req[r].productResults.items[1] = ProductBare
        /\ req[r].productResults.items[2] = ProductFull
        /\ Has(req[r].result, "recommendations")
        /\ Len(req[r].result.f.recommendations.items) = 3

IsNormalizerCall == fx.fn \in {"rankProducts", "rankProductRecommendations"}

\* the bound the claim names for each normalizer
ClaimedBound == IF fx.fn = "rankProducts" THEN 3 ELSE 5

C10_NoEmptySuccess ==
    IsNormalizerCall
    => /\ (~IsArray(fx.input) \/ fx.input = Arr(<<>>)) => fx.out.threw
       /\ ~fx.out.threw => (IsArray(fx.out.value) /\ Len(fx.out.value.items) >= 1)

C10_Witness ==
    /\ fx.fn = "rankProductRecommendations"
    /\ fx.input = Arr(<<>>)
    /\ fx.out.threw
    /\ fx.out.message = Lit("No products available")

\* the fields of a normalized Product
NormalizedFields ==
    {"rank", "title", "price", "link", "image", "shipping", "rating", "reason"}

\* C11: for every raw product record, whichever of its optional properties
\* are absent, null or falsy, the normalized Product has every field, none
\* undefined or null: title, price, image and shipping are "N/A" where the
\* raw property is missing, rating is "Not rated" without a star rating, and
\* link is the marketplace search URL with the URL-encoded title without a
\* product URL.
C11_EveryFieldDefined ==
    (fx # NoCall)
    => LET raw == fx.input.items[1]
           missing(k) == ~Truthy(Get(raw, k))
       IN  /\ ~fx.out.threw
           /\ Len(fx.out.value.items) = 1
           /\ LET product == fx.out.value.items[1]
              IN  /\ DOMAIN product.f = NormalizedFields
                  /\ \A k \in NormalizedFields :
                        product.f[k].t \notin {"undefined", "null"}
                  /\ missing("product_title") => product.f.title = Lit("N/A")
                  /\ missing("product_price") => product.f.price = Lit("N/A")
                  /\ missing("product_photo") => product.f.image = Lit("N/A")
                  /\ missing("delivery") => product.f.shipping = Lit("N/A")
                  /\ missing("product_star_rating")
                        => product.f.rating = Lit("Not rated")
                  /\ missing("product_url")
                        => product.f.link
                             = Str(<<"https://www.amazon.com/s?k=">> \o
                                   (IF missing("product_title")
                                    THEN <<"N%2FA">>
                                    ELSE <<"Sony", "%20", "WH-1000">>))

C11_Witness ==
    /\ fx.fn = "rankProducts"
    /\ DOMAIN fx.input.items[1].f = {"product_title", "product_price", "delivery"}
    /\ fx.input.items[1].f.product_title = ProductFull.f.product_title
    /\ ~fx.out.threw
    /\ fx.out.value.items[1].f.image = Lit("N/A")
    /\ fx.out.value.items[1].f.rating = Lit("Not rated")
    /\ fx.out.value.items[1].f.link
         = Str(<<"https://www.amazon.com/s?k=", "Sony", "%20", "WH-1000">>)

\* C12: sanitizeMessageHistory is total: for every input, also an array
\* with null, undefined or primitive elements or with content that cannot be
\* serialised, it returns a sequence and raises nothing.
C12_SanitizeTotal ==
    (fx # NoCall) => (~fx.out.threw /\ IsArray(fx.out.value))

\* C13: every turn sanitizeMessageHistory returns has a string content: a
\* string content of the input element is passed through unchanged and any
\* other content (object, array, number, boolean, null, absent or undefined)
\* is replaced by a string.
C13_ContentIsString ==
    (fx # NoCall /\ ~fx.out.threw)
    => \A i \in 1..Len(fx.out.value.items) :
          LET given == Get(fx.input.items[i], "content")
              content == Get(fx.out.value.items[i], "content")
          IN  /\ IsString(content)
              /\ IsString(given) => content = given

\* C14: for every input that is no array (undefined, null, a string, a
\* number, a boolean, an object) sanitizeMessageHistory returns the empty
\* sequence and raises nothing.
C14_NonArrayGivesEmpty ==
    (fx # NoCall /\ ~IsArray(fx.input)) => fx.out = Ret(Arr(<<>>))

C14_Witness ==
    /\ fx.fn = "sanitizeMessageHistory"
    /\ fx.input = Obj([products |-> Arr(<<ProductFull>>)])
    /\ fx.out = Ret(Arr(<<>>))

\* the transcript of the call mentions the word, in any letter case
Mentions(word) ==
    \E i \in 0..(Len(fx.transcript.s) - Len(word)) :
        \A j \in 1..Len(word) : LowerChar(fx.transcript.s[i + j]) = word[j]

\* the extraction call returned no content, only white space, or a text
\* that is no JSON
ResponseEmptyOrUnparseable(completion) ==
    /\ completion.kind = "fulfil"
    /\ \/ ~Truthy(completion.content)
       \/ /\ IsString(completion.content)
          /\ \/ \A i \in 1..Len(completion.content.s) : IsSpace(completion.content.s[i])
             \/ "json" \notin DOMAIN completion.content

\* C15: in handleShoppingIntent, when the response of the extraction
\* capability is empty or unparseable, the keyword fallback is tried: a
\* transcript that mentions birthday or party gets the canned party-supplies
\* query, and only a transcript that mentions neither gets the failure.
C15_KeywordFallback ==
    (fx.fn = "handleShoppingIntent" /\ fx.received # <<>>
        /\ ResponseEmptyOrUnparseable(fx.received[1]))
    => IF Mentions(Birthday) \/ Mentions(Party)
       THEN fx.out = Ret(Obj([searchQuery |-> Lit("birthday party supplies"),
                              category |-> Lit("party supplies")]))
       ELSE fx.out.threw

\* C16: for every non-empty string transcript and every outcome of the
\* advice capability (rejection, empty text, text that is no JSON, JSON
\* without message, JSON that is no object), handleShoppingQuery raises
\* nothing and returns an object with a non-empty message.
C16_AdvisorNeverRaises ==
    (fx.fn = "handleShoppingQuery" /\ ~InvalidTranscript(fx.transcript)
        /\ fx.received # <<>>)
    => /\ ~fx.out.threw
       /\ Has(fx.out.value, "message")
       /\ Truthy(fx.out.value.f.message)

C16_Witness ==
    /\ fx.fn = "handleShoppingQuery"
    /\ fx.transcript = Str(<<"h", "i">>)
    /\ fx.received = <<Generated(JsonText("null", Null))>>
    /\ fx.out = Ret(Obj([message |-> GenericAdvice]))

\* the advice call failed, or its text yields no object with a message
AdviceFails(generated) ==
    \/ generated.kind = "reject"
    \/ /\ generated.kind = "fulfil"
       /\ LET text == generated.text
              source == IF "json" \in DOMAIN text THEN text
                        ELSE IF "braced" \in DOMAIN text THEN text.braced
                        ELSE text
          IN  IF "json" \in DOMAIN source
              THEN ~Truthy(Get(source.json, "message"))
              ELSE "braced" \in DOMAIN text \/ text.s = <<>>

\* C17: when the advice capability or the parsing of its text fails,
\* handleShoppingQuery returns the canned advice of the first keyword group
\* the transcript mentions in any letter case, in the order gift/present,
\* deal/sale, choose/decide, and the generic clarifying prompt when it
\* mentions none.
C17_OrderedCannedAdvice ==
    (fx.fn = "handleShoppingQuery" /\ fx.received # <<>> /\ AdviceFails(fx.received[1]))
    => LET gift == Mentions(Gift) \/ Mentions(Present)
           deal == Mentions(Deal) \/ Mentions(Sale)
           choice == Mentions(Choose) \/ Mentions(Decide)
       IN  /\ ~fx.out.threw
           /\ DOMAIN fx.out.value.f = {"message"}
           /\ gift => fx.out.value.f.message = GiftAdvice
           /\ (~gift /\ deal) => fx.out.value.f.message = DealAdvice
           /\ (~gift /\ ~deal /\ choice) => fx.out.value.f.message = ChooseAdvice
           /\ (~gift /\ ~deal /\ ~choice) => fx.out.value.f.message = GenericAdvice

C17_Witness ==
    /\ fx.fn = "handleShoppingQuery"
    /\ fx.transcript = Str(<<"s", "a", "l", "e", " ", "g", "i", "f", "t">>)
    /\ fx.received = <<Generated(JsonText("{...}", Obj([advice |-> Lit("Compare prices.")])))>>
    /\ fx.out = Ret(Obj([message |-> GiftAdvice]))

\* the text of the language model is no JSON, directly or between braces,
\* or the JSON it carries has no response
OutputUnusable(generated) ==
    /\ generated.kind = "fulfil"
    /\ LET text == generated.text
           source == IF "json" \in DOMAIN text THEN text
                     ELSE IF "braced" \in DOMAIN text THEN text.braced
                     ELSE text
       IN  "json" \in DOMAIN source => ~Truthy(Get(source.json, "response"))

\* C18: when processSupportTextWithGemini is called with a valid problem
\* description and the output of the language model fails to parse or has
\* no response field, the call raises nothing and returns an analysis
\* object with a response.
C18_DefaultAnalysisSubstituted ==
    (fx.fn = "processSupportTextWithGemini" /\ fx.received # <<>>
        /\ OutputUnusable(fx.received[1]))
    => /\ ~fx.out.threw
       /\ Has(fx.out.value, "response")
       /\ Truthy(fx.out.value.f.response)

\* the vision call raised or returned no content
ImageCallFails(completion) ==
    completion.kind = "reject" \/ ~Truthy(completion.content)

\* C19: for every non-empty string image payload, processSupportImageWithGroq
\* raises nothing; when the vision call fails (rejection or empty response)
\* it returns success false with a description, empty issues and
\* suggestions and an error message, and whenever the call returned content
\* it returns success true.
C19_ImageFailureEnvelope ==
    (fx.fn = "processSupportImageWithGroq" /\ fx.received # <<>>)
    => /\ ~fx.out.threw
       /\ ImageCallFails(fx.received[1])
            => /\ Get(fx.out.value, "success") = Bool(FALSE)
               /\ Truthy(Get(fx.out.value, "description"))
               /\ Get(fx.out.value, "issues") = Arr(<<>>)
               /\ Get(fx.out.value, "suggestions") = Arr(<<>>)
               /\ IsString(Get(fx.out.value, "error"))
               /\ Truthy(Get(fx.out.value, "error"))
       /\ ~ImageCallFails(fx.received[1])
            => Get(fx.out.value, "success") = Bool(TRUE)

\* C20: every envelope getMessageFromAgent or getShoppingRecommendations
\* returns, on every branch, has exactly one of an error field and
\* success true.
C20_ErrorXorSuccess ==
    \A r \in Requests :
        (Finished(r) /\ req[r].settled = "fulfilled")
        => (Has(req[r].result, "error")
              # (Get(req[r].result, "success") = Bool(TRUE)))

\* seq is an initial part of whole
IsPrefix(seq, whole) ==
    Len(seq) <= Len(whole) /\ seq = SubSeq(whole, 1, Len(seq))

C22_GeneralShoppingEnvelope ==
    \A r \in Requests :
        (Chat(r) /\ IntentIs(r, "general_shopping"))
        => /\ ~Called(r, "extract") /\ ~Called(r, "search")
           /\ "handleShoppingIntent" \notin Range(req[r].stages)
           /\ "searchProducts" \notin Range(req[r].stages)
           /\ Finished(r)
              => LET e == req[r].result
                     advice == handleShoppingQueryResume(req[r].transcript,
                                                         Outcome(r, "advise"))
                 IN  /\ req[r].settled = "fulfilled"
                     /\ Settled(r, "advise")
                     /\ DOMAIN e.f = {"intent", "success", "message"}
                     /\ e.f.intent = Lit("general_shopping")
                     /\ e.f.success = Bool(TRUE)
                     /\ Truthy(e.f.message)
                     /\ e.f.message = advice.value.f.message

C22_Witness ==
    \E r \in Requests :
        /\ Chat(r) /\ Finished(r) /\ IntentIs(r, "general_shopping")
        /\ Outcome(r, "advise")
             = Generated(JsonText("{...}", Obj([message |-> Lit("Compare prices before you buy.")])))
        /\ req[r].result.f.success = Bool(TRUE)
        /\ req[r].result.f.message = Lit("Compare prices before you buy.")

\* C23: for a list of length n >= 1 the index getRandomIndex draws is an
\* integer in 0..n-1 whatever 32-bit value is drawn, and when the classifier
\* answers greeting, getMessageFromAgent returns an envelope with intent
\* greeting whose message is an element of the greeting list.
C23_GreetingFromList ==
    /\ fx.fn = "getRandomIndex" => fx.out \in 0..(fx.max - 1)
    /\ fx.fn = "getMessageFromAgent"
        => /\ fx.out.pc = "done"
           /\ fx.out.settled = "fulfilled"
           /\ Get(fx.out.result, "intent") = Lit("greeting")
           /\ Get(fx.out.result, "message") \in Range(greetings)

C23_Witness ==
    /\ fx.fn = "getMessageFromAgent"
    /\ fx.drawn = [hi |-> 65535, lo |-> 65535]
    /\ fx.out.result.f.message = greetings[1]

\* a number of the interval [0, 1]
InUnitInterval(v) ==
    /\ v.t = "number"
    /\ IF "scale" \in DOMAIN v THEN 0 <= v.n /\ v.n <= v.scale ELSE v.n \in {0, 1}

\* C24: every IntentResult determineIntent returns to the router has an
\* intent among greeting, shopping, general_shopping and unclear, a
\* confidence that is a number in [0, 1], and a clarification only when the
\* intent is unclear.
C24_IntentResultInvariant ==
    \A r \in Requests :
        (Chat(r) /\ Settled(r, "classify"))
        => LET result == req[r].intentResult
           IN  /\ result.t = "object"
               /\ \E literal \in {"greeting", "shopping", "general_shopping", "unclear"} :
                     Get(result, "intent") = Lit(literal)
               /\ InUnitInterval(Get(result, "confidence"))
               /\ Has(result, "clarification") => Get(result, "intent") = Lit("unclear")

\* C25: every SearchQuery handleShoppingIntent returns has a searchQuery
\* that is a non-empty string.
C25_SearchQueryIsString ==
    (fx.fn = "handleShoppingIntent" /\ ~fx.out.threw)
    => /\ IsString(Get(fx.out.value, "searchQuery"))
       /\ Truthy(Get(fx.out.value, "searchQuery"))

\* the capabilities the request called, in the order of the calls
Capabilities(r) == [i \in 1..Len(req[r].calls) |-> req[r].calls[i].capability]

\* C26: within one getMessageFromAgent request the capability calls are
\* strictly ordered: a call starts only when every earlier call has settled,
\* classification comes before extraction and extraction before the search,
\* the search starts only after the extraction succeeded, and it is called
\* with the search phrase that extraction returned in the same request.
C26_CallsInOrder ==
    \A r \in Requests :
        Chat(r)
        => /\ \/ IsPrefix(Capabilities(r), <<"classify", "extract", "search">>)
              \/ IsPrefix(Capabilities(r), <<"classify", "advise">>)
           /\ Len(req[r].received) <= Len(req[r].calls)
           /\ Len(req[r].calls) <= Len(req[r].received) + 1
           /\ Called(r, "search")
              => LET extracted == handleShoppingIntentResume(req[r].transcript,
                                                             req[r].received[2])
                 IN  /\ ~extracted.threw
                     /\ req[r].searchResult = extracted.value
                     /\ req[r].calls[3].argument = Get(extracted.value, "searchQuery")

C26_Witness ==
    \E r \in Requests :
        /\ Chat(r)
        /\ Capabilities(r) = <<"classify", "extract", "search">>
        /\ Len(req[r].received) = 2
        /\ req[r].calls[3].argument = Str(<<"wireless", " ", "headphones">>)

\* C27: in getMessageFromAgent and getShoppingRecommendations each
\* capability is invoked at most once per request, and a rejected call is
\* the last call of the request: the request ends with the fallback or the
\* envelope of that failure, never with a second attempt.
C27_AtMostOnce ==
    \A r \in Requests :
        /\ \A i, j \in 1..Len(req[r].calls) :
              req[r].calls[i].capability = req[r].calls[j].capability => i = j
        /\ \A i \in 1..Len(req[r].received) :
              (req[r].received[i].kind = "reject")
              => /\ Finished(r)
                 /\ Len(req[r].calls) = i

C27_Witness ==
    \E r \in Requests :
        /\ Shop(r) /\ Finished(r)
        /\ Capabilities(r) = <<"extract", "search">>
        /\ req[r].received[2] = Reject(Lit("fetch failed"))
        /\ ErrorIs(r, "Failed to fetch products")

\* C28: the branch getMessageFromAgent takes is determined by the intent
\* literal of the classifier alone, whatever the confidence (a shopping
\* result of confidence below 0.5 runs the shopping branch), and only the
\* handlers of that branch are invoked: greeting calls no extractor, search
\* or advisor; shopping calls no advisor; general_shopping calls no
\* extractor or search; unclear calls no capability.
C28_BranchByIntentOnly ==
    \A r \in Requests :
        (Chat(r) /\ Settled(r, "classify"))
        => /\ IntentIs(r, "greeting")
              => /\ req[r].stages = <<"determineIntent", "handleGreetingIntent">>
                 /\ Capabilities(r) = <<"classify">>
           /\ IntentIs(r, "shopping")
              => /\ Len(req[r].stages) >= 2
                 /\ req[r].stages[2] = "handleShoppingIntent"
                 /\ IsPrefix(req[r].stages,
                             <<"determineIntent", "handleShoppingIntent",
                               "searchProducts", "rankProducts">>)
                 /\ Len(Capabilities(r)) >= 2
                 /\ IsPrefix(Capabilities(r), <<"classify", "extract", "search">>)
           /\ IntentIs(r, "general_shopping")
              => /\ req[r].stages = <<"determineIntent", "handleShoppingQuery">>
                 /\ Capabilities(r) = <<"classify", "advise">>
           /\ IntentIs(r, "unclear")
              => /\ req[r].stages = <<"determineIntent">>
                 /\ Capabilities(r) = <<"classify">>

C28_Witness ==
    \E r \in Requests :
        /\ Chat(r) /\ IntentIs(r, "shopping")
        /\ Get(req[r].intentResult, "confidence") = Decimal(3)
        /\ Capabilities(r) = <<"classify", "extract", "search">>
        /\ req[r].stages = <<"determineIntent", "handleShoppingIntent", "searchProducts">>

\* the number of calls of the capability the request made
CallCount(r, capability) ==
    Cardinality({i \in 1..Len(req[r].calls) : req[r].calls[i].capability = capability})

\* C29: in one POST /support request the text analyzer is invoked at most
\* once when a problem description is given and the image analyzer at most
\* once when an image is given: no analyzer call is repeated.
C29_AnalyzersOnce ==
    \A r \in Requests :
        (req[r].fn = "POST /support")
        => /\ CallCount(r, "analyzeText") <= 1
           /\ CallCount(r, "analyzeImage") <= 1

\* C30: if every capability call eventually returns or fails, every
\* getMessageFromAgent and getShoppingRecommendations request eventually
\* terminates and produces exactly one result: a called request eventually
\* finishes, it is suspended only while exactly one capability call is
\* outstanding, its promise is settled exactly when it has finished, and a
\* finished request never changes again.
C30_RequestsTerminate ==
    /\ \A r \in Requests : (req[r].pc # "idle") ~> Finished(r)
    /\ [](\A r \in Requests :
            /\ (req[r].pc \notin {"idle", "done"})
               => Len(req[r].calls) = Len(req[r].received) + 1
            /\ Finished(r) <=> (req[r].settled # "pending")
            /\ Finished(r) => Len(req[r].calls) = Len(req[r].received))
    /\ [][\A r \in Requests : Finished(r) => req'[r] = req[r]]_vars

C30_Witness ==
    \E r \in Requests :
        /\ Chat(r) /\ Finished(r)
        /\ req[r].settled = "fulfilled"
        /\ Len(req[r].calls) = 3
        /\ Len(req[r].received) = 3
        /\ req[r].received[3] = Reject(Lit("fetch failed"))

\* C31: for every array input sanitizeMessageHistory returns a new sequence
\* of the same length in the same order, whose i-th turn has the role of the
\* i-th element, or "user" when that role is absent or falsy.
C31_SameLengthOrderRole ==
    (fx # NoCall /\ IsArray(fx.input))
    => /\ ~fx.out.threw
       /\ IsArray(fx.out.value)
       /\ Len(fx.out.value.items) = Len(fx.input.items)
       /\ \A i \in 1..Len(fx.input.items) :
             LET role == IF CannotRead(fx.input.items[i])
                         THEN Undefined ELSE Get(fx.input.items[i], "role")
             IN  Get(fx.out.value.items[i], "role")
                    = IF Truthy(role) THEN role ELSE Lit("user")

\* C32: for every raw product record, also one whose properties are present
\* with an unexpected shape (a number, an object or an array instead of
\* text), the fields title, price, link, image, shipping, rating and reason
\* of the normalized Product are all strings.
C32_FieldsAreStrings ==
    (fx # NoCall)
    => /\ ~fx.out.threw
       /\ \A i \in 1..Len(fx.out.value.items) :
             \A k \in NormalizedFields \ {"rank"} :
                IsString(fx.out.value.items[i].f[k])

\* C33: both support analyzers extract JSON in the same two steps: a
\* response that fails direct parsing but contains a brace-delimited JSON
\* object yields that object as the analysis, in processSupportImageWithGroq
\* as well as in processSupportTextWithGemini (here for an object that is a
\* complete analysis).
C33_BraceScanInBoth ==
    (fx # NoCall /\ fx.received # <<>> /\ fx.received[1].kind = "fulfil")
    => LET text == IF fx.fn = "processSupportTextWithGemini"
                   THEN fx.received[1].text ELSE fx.received[1].content
       IN  (/\ IsString(text)
            /\ "json" \notin DOMAIN text
            /\ "braced" \in DOMAIN text
            /\ "json" \in DOMAIN text.braced
            /\ text.braced.json \in {TextAnalysis, ImageAnalysis})
           => fx.out = Ret(SpreadOverSuccess(text.braced.json))

\* the HTTP responses of the route activation so far
Sent(r) == IF "route" \in DOMAIN req[r] THEN req[r].sent ELSE <<>>

C35_SupportStatus ==
    \A r \in Requests :
        (req[r].fn = "POST /support" /\ Finished(r) /\ Truthy(req[r].body))
        => LET described == Truthy(Get(req[r].body, "problemDescription"))
               pictured == Truthy(Get(req[r].body, "imageBase64"))
               answer == req[r].result
           IN  IF ~described /\ ~pictured
               THEN /\ req[r].status = 400
                    /\ Get(answer, "error") = Lit("Missing input")
               ELSE /\ req[r].status = 200
                    /\ Get(answer, "success") = Bool(TRUE)
                    /\ (Get(answer, "textAnalysis") = Null) <=> ~described
                    /\ (Get(answer, "imageAnalysis") = Null) <=> ~pictured

\* getMessageFromAgent run alone: called with the transcript and the history
\* and resumed with these capability outcomes, one after the other
RECURSIVE Resumed(_, _, _)
Resumed(rq, outcomes, drawn) ==
    IF outcomes = <<>> THEN rq
    ELSE LET outcome == Head(outcomes)
             at == Receive(rq, outcome)
         IN  Resumed(
                CASE rq.pc = "determineIntent" ->
                        getMessageFromAgentClassified(at, outcome, drawn)
                  [] rq.pc = "handleShoppingIntent" ->
                        getMessageFromAgentExtracted(at, outcome, env)
                  [] rq.pc = "searchProducts" ->
                        getMessageFromAgentSearched(at, outcome)
                  [] rq.pc = "handleShoppingQuery" ->
                        getMessageFromAgentAdvised(at, outcome)
                  [] OTHER -> rq,
                Tail(outcomes), drawn)

\* C36: requests share no mutable state: when two getMessageFromAgent
\* requests run interleaved at their capability calls, a step of one request
\* changes nothing of the other and nothing of the environment, and at every
\* point each request is where, and has the envelope that, it would have
\* when run alone with its own transcript, history, capability responses
\* and random draw.
C36_NoSharedState ==
    /\ [](\A r \in DOMAIN req :
            (req[r].pc # "idle")
            => \E drawn \in Draws :
                  req[r] = Resumed(getMessageFromAgentCall(req[r].transcript,
                                                           req[r].messageHistory),
                                   req[r].received, drawn))
    /\ [][/\ env' = env
          /\ \A r \in DOMAIN req : \A q \in DOMAIN req \ {r} :
                (req'[r] # req[r]) => (req'[q] = req[q])]_vars

C36_Witness ==
    /\ DOMAIN req = {1, 2}
    /\ req[1].pc = "searchProducts"
    /\ req[1].transcript = Str(<<"P", "a", "r", "t", "y">>)
    /\ Get(req[1].searchResult, "searchQuery") = Lit("birthday party supplies")
    /\ Finished(2)
    /\ Len(req[2].received) = 3
    /\ Get(req[2].result, "query") = Str(<<"wireless", " ", "headphones">>)
    /\ Len(Get(req[2].result, "recommendations").items) = 1

====
